---- MODULE Spec2Model ----
(***************************************************************************)
(* Energy-estimation core of the home energy dashboard:                    *)
(*   src/energy_savings.py  EnergyCalculator (month-based baseline model)  *)
(*   src/mpc.py             MPCCalculator (linear MPC/RBC thermal model)   *)
(*                                                                         *)
(* Every model function is a pure function of its arguments, so a          *)
(* behaviour is one call: Init draws the argument frames, one action       *)
(* applies one method and stores what it returned (or the exception it     *)
(* raised).                                                                *)
(*                                                                         *)
(* Specifications:                                                         *)
(*   Spec             the four model methods on enumerated frames          *)
(*   SpecEqualSlopes  calculate_all_savings_metrics, equal MPC/RBC slopes  *)
(*   SpecMetrics      calculate_all_metrics and the scalar conversions     *)
(*   SpecSimulate     simulate_outdoor_temperature                         *)
(*   SpecDashboard    the energy callbacks of src/app.py over a database   *)
(*   SpecConcurrent   two invocations on the shared calculators,           *)
(*                    interleaved statement by statement                   *)
(*   SpecSweep        the thermal model over a sweep of indoor setpoints   *)
(*   SpecBill         the energy-bill callback of src/app.py               *)
(*                                                                         *)
(* Arithmetic is exact decimal fixed point (binary floating-point rounding *)
(* is not modelled).  Units:                                               *)
(*   baseline energy        1e-2 kWh      rates ($/kWh)     1e-4           *)
(*   baseline cost          1e-6 USD      co2 intensity     1e-3           *)
(*   baseline co2           1e-5 kg                                        *)
(*   thermal slope C1       1e-10         thermal energy    1e-13 (Num)    *)
(* A Num is a two-limb integer hi * Base + lo with 0 <= lo < Base, used    *)
(* where a value does not fit a 32-bit integer.                            *)
(***************************************************************************)
EXTENDS Integers, Sequences, FiniteSets, TLC

VARIABLES
    indoor,        \* temperature_df argument (a DataFrame)
    outdoor,       \* outdoor_temp_df argument (a DataFrame)
    energy_calc,   \* fields of the EnergyCalculator instance
    mpc_calc,      \* fields of the MPCCalculator instance
    op,            \* the method that was called, "none" before the call
    args,          \* its keyword arguments
    ret,           \* what it returned: [raised, value]
    stdout,        \* the lines printed so far
    locals,        \* local variables of the dashboard callback that ran
    threads        \* concurrent invocations on the shared EnergyCalculator

vars == <<indoor, outdoor, energy_calc, mpc_calc, op, args, ret, stdout, locals, threads>>

----------------------------------------------------------------------------
(* Module constants of energy_savings.py *)

BASE_RATE_ELECTRIC == 208

BASE_RATE_GAS == 34

BASE_RATE == BASE_RATE_ELECTRIC + BASE_RATE_GAS

\* the table with the January and February surcharges exchanged
HEATING_RATES_swapped == (11 :> 243) @@ (12 :> 475) @@ (1 :> 676) @@ (2 :> 667) @@ (3 :> 496)

HEATING_RATES == (11 :> 243) @@ (12 :> 475) @@ (1 :> 667) @@ (2 :> 676) @@ (3 :> 496)

ELECTRIC_RATE == 1500

GAS_RATE == 226

\* default co2_per_kwh of calculate_co2_emissions, 0.417 kg/kWh
CO2_PER_KWH == 417

\* default kg_per_km of calculate_equivalent_km_driven, 0.222 kg/km
KG_PER_KM == 222

\* default electricity_rate of calculate_cost / calculate_all_metrics, 0.15
DEFAULT_ELECTRICITY_RATE == 1500

(* Module constants of mpc.py; slopes in 1e-10, intercepts in tenths *)

RBC_C1_HEATING == 1958333333

C2_HEATING == -80

MPC_C1_HEATING == 1595833333

RBC_C1_COOLING == 1266666667

C2_COOLING == 64

MPC_C1_COOLING == 1091666667

----------------------------------------------------------------------------
(* Two-limb exact integers *)

Base == 1000 * 1000

Norm(h, l) == [hi |-> h + (l \div Base), lo |-> l % Base]

NumZero == [hi |-> 0, lo |-> 0]

NumAdd(a, b) == Norm(a.hi + b.hi, a.lo + b.lo)

NumSub(a, b) == Norm(a.hi - b.hi, a.lo - b.lo)

\* a * k for a small integer k
NumScale(a, k) == Norm(a.hi * k, a.lo * k)

NumNeg(a) == a.hi < 0

NumLess(a, b) == a.hi < b.hi \/ (a.hi = b.hi /\ a.lo < b.lo)

\* a / 1000, exact when 1000 divides a (true division otherwise has a
\* remainder the fixed-point value drops; NumRem1000 exposes it)
NumDiv1000(a) ==
    [hi |-> a.hi \div 1000, lo |-> ((a.hi % 1000) * Base + a.lo) \div 1000]

NumRem1000(a) == ((a.hi % 1000) * Base + a.lo) % 1000

----------------------------------------------------------------------------
(* Calendar: a timestamp is the number of hours since 2025-01-01 00:00 *)

CumDays == <<0, 31, 59, 90, 120, 151, 181, 212, 243, 273, 304, 334>>

HoursInYear == 365 * 24

\* pandas .dt.month
Month(t) ==
    CHOOSE m \in 1..12 :
        /\ CumDays[m] * 24 <= t
        /\ (m = 12 \/ t < CumDays[m + 1] * 24)

\* pandas .hour
Hour(t) == t % 24

----------------------------------------------------------------------------
(* DataFrames: the set of column names and the rows in index order *)

InputColumns == {"_time", "_value"}

\* pd.DataFrame(): no columns, no rows (InfluxDBHelper.query on no data)
EmptyFrame == [columns |-> {}, rows |-> <<>>]

Frame(rows) == [columns |-> InputColumns, rows |-> rows]

Raise(e) == [raised |-> e]

Return(v) == [raised |-> "none", value |-> v]

\* dict.get(key, default)
DictGet(d, key, default) == IF key \in DOMAIN d THEN d[key] ELSE default

RECURSIVE SumEnergy(_)
\* Series.sum() of an integer 'energy' column
SumEnergy(rows) ==
    IF rows = <<>> THEN 0 ELSE Head(rows).energy + SumEnergy(Tail(rows))

----------------------------------------------------------------------------
(* class EnergyCalculator *)

EnergyCalculator_init ==
    [base_rate          |-> BASE_RATE,
     base_rate_electric |-> BASE_RATE_ELECTRIC,
     base_rate_gas      |-> BASE_RATE_GAS,
     heating_rates      |-> HEATING_RATES,
     electric_rate      |-> ELECTRIC_RATE,
     gas_rate           |-> GAS_RATE]

\* the month taken zero-based
HourlyRate_zero_based(self, m) == self.base_rate + DictGet(self.heating_rates, m - 1, 0)

\* lambda m: self.base_rate + self.heating_rates.get(m, 0)
HourlyRate(self, m) == self.base_rate + DictGet(self.heating_rates, m, 0)

\* the heating surcharge left out of the gas energy
GasRate_no_heating(self, m) == self.base_rate_gas

\* lambda m: self.base_rate_gas + self.heating_rates.get(m, 0)
GasRate(self, m) == self.base_rate_gas + DictGet(self.heating_rates, m, 0)

\* the energy following the indoor temperature of the sample
EnergyCalculator_calculate_energy_consumption_by_temperature(self, temperature_df, outdoor_temp_df) ==
    IF "_time" \notin temperature_df.columns
    THEN Raise("KeyError")
    ELSE Return([columns |-> {"_time", "energy"},
                 rows |-> [i \in 1..Len(temperature_df.rows) |->
                     [time   |-> temperature_df.rows[i].time,
                      energy |-> HourlyRate(self, Month(temperature_df.rows[i].time))
                                     + temperature_df.rows[i].value]]])

\* the samples returned latest first
EnergyCalculator_calculate_energy_consumption_reversed(self, temperature_df, outdoor_temp_df) ==
    IF "_time" \notin temperature_df.columns
    THEN Raise("KeyError")
    ELSE LET n == Len(temperature_df.rows)
         IN  Return([columns |-> {"_time", "energy"},
                 rows |-> [i \in 1..n |->
                     [time   |-> temperature_df.rows[n + 1 - i].time,
                      energy |-> HourlyRate(self, Month(temperature_df.rows[n + 1 - i].time))]]])

\* One 'energy' row per input row, in input order; df['_time'] raises
\* KeyError on a frame without that column.
EnergyCalculator_calculate_energy_consumption(self, temperature_df, outdoor_temp_df) ==
    IF "_time" \notin temperature_df.columns
    THEN Raise("KeyError")
    ELSE Return([columns |-> {"_time", "energy"},
                 rows |-> [i \in 1..Len(temperature_df.rows) |->
                     [time   |-> temperature_df.rows[i].time,
                      energy |-> HourlyRate(self, Month(temperature_df.rows[i].time))]]])

\* the last sample left out of the sum
calculate_total_energy_drops_last(energy_df) ==
    IF energy_df.rows = <<>> THEN 0
    ELSE SumEnergy(SubSeq(energy_df.rows, 1, Len(energy_df.rows) - 1))

calculate_total_energy(energy_df) == SumEnergy(energy_df.rows)

\* the product cut down to whole dollars
calculate_cost_whole_dollars(energy_kwh, electricity_rate) ==
    ((energy_kwh * electricity_rate) \div (1000 * 1000)) * (1000 * 1000)

calculate_cost(energy_kwh, electricity_rate) == energy_kwh * electricity_rate

calculate_co2_emissions(energy_kwh, co2_per_kwh) == energy_kwh * co2_per_kwh

\* co2_kg / kg_per_km, kept as the exact fraction num / den
calculate_equivalent_km_driven(co2_kg, kg_per_km) ==
    [num |-> co2_kg, den |-> kg_per_km]

RECURSIVE SumGas(_, _)
\* df['gas_energy'].sum()
SumGas(self, rows) ==
    IF rows = <<>> THEN 0
    ELSE GasRate(self, Month(Head(rows).time)) + SumGas(self, Tail(rows))

\* the flat-rate cost: calculate_cost(total_energy_kwh, electricity_rate)
MetricsCost_flat(self, energy_df, total_energy_kwh, electricity_rate) ==
    calculate_cost(total_energy_kwh, electricity_rate)

\* The electric/gas cost breakdown of calculate_all_metrics; the
\* electricity_rate argument is in scope and not read.
MetricsCost(self, energy_df, total_energy_kwh, electricity_rate) ==
    LET electric_energy_kwh == Len(energy_df.rows) * self.base_rate_electric
        electric_cost == electric_energy_kwh * self.electric_rate
        gas_energy_kwh == SumGas(self, energy_df.rows)
        gas_cost == gas_energy_kwh * self.gas_rate
    IN  electric_cost + gas_cost

EnergyCalculator_calculate_all_metrics(self, temperature_df, outdoor_temp_df, electricity_rate) ==
    LET r == EnergyCalculator_calculate_energy_consumption(self, temperature_df, outdoor_temp_df)
    IN  IF r.raised # "none" THEN r
        ELSE
        LET energy_df == r.value
            total_energy_kwh == calculate_total_energy(energy_df)
            cost_usd == MetricsCost(self, energy_df, total_energy_kwh, electricity_rate)
            co2_kg == calculate_co2_emissions(total_energy_kwh, CO2_PER_KWH)
            km_driven == calculate_equivalent_km_driven(co2_kg, KG_PER_KM)
        IN  Return([total_energy_kwh |-> total_energy_kwh,
                    cost_usd         |-> cost_usd,
                    co2_kg           |-> co2_kg,
                    equivalent_km    |-> km_driven,
                    energy_df        |-> energy_df])

----------------------------------------------------------------------------
(* class MPCCalculator *)

MPCCalculator_init ==
    [rbc_c1_heating |-> RBC_C1_HEATING,
     c2_heating     |-> C2_HEATING,
     mpc_c1_heating |-> MPC_C1_HEATING,
     rbc_c1_cooling |-> RBC_C1_COOLING,
     c2_cooling     |-> C2_COOLING,
     mpc_c1_cooling |-> MPC_C1_COOLING]

RECURSIVE JoinRow(_, _)
\* the right rows whose '_time' equals the left row's, in right order
JoinRow(lrow, rrows) ==
    IF rrows = <<>> THEN <<>>
    ELSE (IF Head(rrows).time = lrow.time
          THEN <<[time          |-> lrow.time,
                  value_indoor  |-> lrow.value,
                  value_outdoor |-> Head(rrows).value]>>
          ELSE <<>>) \o JoinRow(lrow, Tail(rrows))

RECURSIVE JoinRows(_, _)
\* inner join: the order of the left keys is preserved
JoinRows(lrows, rrows) ==
    IF lrows = <<>> THEN <<>>
    ELSE JoinRow(Head(lrows), rrows) \o JoinRows(Tail(lrows), rrows)

\* rows paired by position instead of by key
pd_merge_positional(left, right) ==
    IF "_time" \notin left.columns \/ "_time" \notin right.columns
    THEN Raise("KeyError")
    ELSE Return([columns |-> {"_time", "_value_indoor", "_value_outdoor"},
                 rows    |-> [i \in 1..(IF Len(left.rows) < Len(right.rows)
                                        THEN Len(left.rows) ELSE Len(right.rows)) |->
                     [time          |-> left.rows[i].time,
                      value_indoor  |-> left.rows[i].value,
                      value_outdoor |-> right.rows[i].value]]])

\* pd.merge(left, right, on='_time', suffixes=('_indoor', '_outdoor'));
\* a frame without the key column raises KeyError
pd_merge(left, right) ==
    IF "_time" \notin left.columns \/ "_time" \notin right.columns
    THEN Raise("KeyError")
    ELSE Return([columns |-> {"_time", "_value_indoor", "_value_outdoor"},
                 rows    |-> JoinRows(left.rows, right.rows)])

\* the two intercepts exchanged between the branches
SelectCoefficients_c2_swapped(self, mode, control_type) ==
    IF mode = "heating"
    THEN [c1 |-> IF control_type = "mpc" THEN self.mpc_c1_heating
                                          ELSE self.rbc_c1_heating,
          c2 |-> self.c2_cooling]
    ELSE [c1 |-> IF control_type = "mpc" THEN self.mpc_c1_cooling
                                          ELSE self.rbc_c1_cooling,
          c2 |-> self.c2_heating]

\* the rbc branch of heating reading the cooling slope
SelectCoefficients_rbc_cooling_slope(self, mode, control_type) ==
    IF mode = "heating"
    THEN [c1 |-> IF control_type = "mpc" THEN self.mpc_c1_heating
                                          ELSE self.rbc_c1_cooling,
          c2 |-> self.c2_heating]
    ELSE [c1 |-> IF control_type = "mpc" THEN self.mpc_c1_cooling
                                          ELSE self.rbc_c1_heating,
          c2 |-> self.c2_cooling]

\* the if/else that picks c1 and c2: anything but 'heating' is treated as
\* cooling, anything but 'mpc' as rbc
SelectCoefficients(self, mode, control_type) ==
    IF mode = "heating"
    THEN [c1 |-> IF control_type = "mpc" THEN self.mpc_c1_heating
                                          ELSE self.rbc_c1_heating,
          c2 |-> self.c2_heating]
    ELSE [c1 |-> IF control_type = "mpc" THEN self.mpc_c1_cooling
                                          ELSE self.rbc_c1_cooling,
          c2 |-> self.c2_cooling]

\* c1 * (t_indoor - t_outdoor) + c2 in units of 1e-13: c1 is in 1e-10 and
\* the temperatures are whole degrees, c2 is in tenths
Linear(c1, t_indoor, t_outdoor, c2) ==
    LET d == t_indoor - t_outdoor
        slope == NumScale(Norm((c1 \div Base) * d, (c1 % Base) * d), 1000)
    IN  NumAdd(slope, Norm(c2 * Base, 0))

\* no clipping
ClipLower0_none(e) == e

\* Series.clip(lower=0)
ClipLower0(e) == IF NumNeg(e) THEN NumZero ELSE e

MPCCalculator_calculate_energy_consumption(self, temperature_df, outdoor_temp_df, mode, control_type) ==
    LET m == pd_merge(temperature_df, outdoor_temp_df)
    IN  IF m.raised # "none" THEN m
        ELSE
        LET merged == m.value
            c == SelectCoefficients(self, mode, control_type)
        IN  Return([columns |-> {"_time", "energy"},
                    rows |-> [i \in 1..Len(merged.rows) |->
                        [time   |-> merged.rows[i].time,
                         energy |-> ClipLower0(Linear(c.c1,
                                        merged.rows[i].value_indoor,
                                        merged.rows[i].value_outdoor, c.c2))]]])

RECURSIVE NumSumEnergy(_)
\* Series.sum() of a thermal 'energy' column
NumSumEnergy(rows) ==
    IF rows = <<>> THEN NumZero
    ELSE NumAdd(Head(rows).energy, NumSumEnergy(Tail(rows)))

\* the totals subtracted the other way round
calculate_total_energy_savings_swapped(mpc_energy_df, rbc_energy_df) ==
    NumDiv1000(NumSub(NumSumEnergy(mpc_energy_df.rows), NumSumEnergy(rbc_energy_df.rows)))

\* (rbc_total - mpc_total) / 1000
calculate_total_energy_savings(mpc_energy_df, rbc_energy_df) ==
    LET mpc_total == NumSumEnergy(mpc_energy_df.rows)
        rbc_total == NumSumEnergy(rbc_energy_df.rows)
        savings_wh == NumSub(rbc_total, mpc_total)
    IN  NumDiv1000(savings_wh)

\* the rate passed left unread, the default used
calculate_cost_savings_default_rate(energy_savings_kwh, electricity_rate) ==
    NumScale(energy_savings_kwh, DEFAULT_ELECTRICITY_RATE)

\* energy_savings_kwh * electricity_rate, in 1e-17 USD
calculate_cost_savings(energy_savings_kwh, electricity_rate) ==
    NumScale(energy_savings_kwh, electricity_rate)

\* energy_savings_kwh * co2_per_kwh (in hundredths), in 1e-15 lbs
calculate_co2_savings(energy_savings_kwh, co2_per_kwh) ==
    NumScale(energy_savings_kwh, co2_per_kwh)

\* co2_savings_lbs / lbs_per_mile, kept as the exact fraction num / den
calculate_equivalent_miles_driven(co2_savings_lbs, lbs_per_mile) ==
    [num |-> co2_savings_lbs, den |-> lbs_per_mile]

\* default co2_per_kwh of calculate_co2_savings, 0.92 lbs/kWh
CO2_LBS_PER_KWH == 92

\* default lbs_per_mile of calculate_equivalent_miles_driven, 0.79
LBS_PER_MILE == 79

MPCCalculator_calculate_all_savings_metrics(self, temperature_df, outdoor_temp_df, mode, electricity_rate) ==
    LET mpc == MPCCalculator_calculate_energy_consumption(
                   self, temperature_df, outdoor_temp_df, mode, "mpc")
        rbc == MPCCalculator_calculate_energy_consumption(
                   self, temperature_df, outdoor_temp_df, mode, "rbc")
    IN  IF mpc.raised # "none" THEN mpc
        ELSE
        LET energy_savings_kwh == calculate_total_energy_savings(mpc.value, rbc.value)
            cost_savings_usd == calculate_cost_savings(energy_savings_kwh, electricity_rate)
            co2_savings_lbs == calculate_co2_savings(energy_savings_kwh, CO2_LBS_PER_KWH)
            miles_driven == calculate_equivalent_miles_driven(co2_savings_lbs, LBS_PER_MILE)
        IN  Return([energy_savings_kwh |-> energy_savings_kwh,
                    cost_savings_usd   |-> cost_savings_usd,
                    co2_savings_lbs    |-> co2_savings_lbs,
                    equivalent_miles   |-> miles_driven,
                    mpc_energy         |-> mpc.value,
                    rbc_energy         |-> rbc.value])

----------------------------------------------------------------------------
(* Arguments the methods are called with *)

\* longest baseline input series enumerated
MaxLen == 2

\* longest indoor / outdoor series enumerated for the thermal model
MaxPairLen == 2

\* one timestamp per calendar month: the first hour of an odd month, the
\* last hour of an even one
MonthStamp(m) ==
    IF m % 2 = 1 THEN CumDays[m] * 24
    ELSE (IF m = 12 THEN HoursInYear ELSE CumDays[m + 1] * 24) - 1

BaselineStamps == {MonthStamp(m) : m \in 1..12}

\* 2025-01-01 00:00 and 01:00
PairStamps == {0, 1}

InTemps == {20, 30, 80}

OutTemps == {10, 20, 80}

FramesOver(stamps, temps, n) ==
    {Frame(rows) : rows \in UNION {[1..k -> [time : stamps, value : temps]] : k \in 0..n}}

BaselineInputs ==
    ({EmptyFrame} \cup FramesOver(BaselineStamps, {20}, MaxLen)) \X {EmptyFrame}

PairInputs ==
    ({EmptyFrame} \cup FramesOver(PairStamps, InTemps, MaxPairLen))
        \X ({EmptyFrame} \cup FramesOver(PairStamps, OutTemps, MaxPairLen))

\* 100 hourly samples from 2025-01-01 00:00 on, all in January
JanuarySeries == Frame([i \in 1..100 |-> [time |-> i - 1, value |-> 20]])

ScenarioInputs == {<<JanuarySeries, EmptyFrame>>}

Inputs == BaselineInputs \cup PairInputs \cup ScenarioInputs

Rates == {DEFAULT_ELECTRICITY_RATE, 2000}

Modes == {"heating", "cooling", "auto"}

ControlTypes == {"mpc", "rbc", "pid"}

----------------------------------------------------------------------------
(* The state machine *)

\* the process after its module-level objects are constructed, before a call
Constructed ==
    /\ energy_calc = EnergyCalculator_init
    /\ op = "none"
    /\ args = [electricity_rate |-> DEFAULT_ELECTRICITY_RATE]
    /\ ret = Raise("not called")
    /\ stdout = <<>>
    /\ locals = [callback |-> "none"]
    /\ threads = <<>>

Init ==
    /\ \E p \in Inputs : indoor = p[1] /\ outdoor = p[2]
    /\ mpc_calc = MPCCalculator_init
    /\ Constructed

\* energy_calc.calculate_energy_consumption(indoor, outdoor)
CallBaselineEnergy ==
    /\ op = "none"
    /\ op' = "baseline_energy"
    /\ ret' = EnergyCalculator_calculate_energy_consumption(energy_calc, indoor, outdoor)
    /\ UNCHANGED <<stdout, locals, threads, indoor, outdoor, energy_calc, mpc_calc, args>>

\* energy_calc.calculate_all_metrics(indoor, outdoor, electricity_rate)
CallAllMetrics ==
    /\ op = "none"
    /\ \E rate \in Rates :
        /\ args' = [electricity_rate |-> rate]
        /\ ret' = EnergyCalculator_calculate_all_metrics(energy_calc, indoor, outdoor, rate)
    /\ op' = "all_metrics"
    /\ UNCHANGED <<stdout, locals, threads, indoor, outdoor, energy_calc, mpc_calc>>

\* mpc_calc.calculate_energy_consumption(indoor, outdoor, mode, control_type)
CallThermalEnergy ==
    /\ op = "none"
    /\ \E mode \in Modes, control_type \in ControlTypes :
        /\ args' = [mode |-> mode, control_type |-> control_type]
        /\ ret' = MPCCalculator_calculate_energy_consumption(
                      mpc_calc, indoor, outdoor, mode, control_type)
    /\ op' = "thermal_energy"
    /\ UNCHANGED <<stdout, locals, threads, indoor, outdoor, energy_calc, mpc_calc>>

\* mpc_calc.calculate_all_savings_metrics(indoor, outdoor, mode, electricity_rate)
CallAllSavings ==
    /\ op = "none"
    /\ \E mode \in Modes, rate \in Rates :
        /\ args' = [mode |-> mode, electricity_rate |-> rate]
        /\ ret' = MPCCalculator_calculate_all_savings_metrics(
                      mpc_calc, indoor, outdoor, mode, rate)
    /\ op' = "all_savings"
    /\ UNCHANGED <<stdout, locals, threads, indoor, outdoor, energy_calc, mpc_calc>>

Next ==
    \/ CallBaselineEnergy
    \/ CallAllMetrics
    \/ CallThermalEnergy
    \/ CallAllSavings

Spec == Init /\ [][Next]_vars

----------------------------------------------------------------------------
(* Properties of the baseline model *)

\* the surcharge table as the specification states it, in 1e-2 kWh/hr
StatedSurcharge(m) ==
    CASE m = 11 -> 243 [] m = 12 -> 475 [] m = 1 -> 667
      [] m = 2 -> 676 [] m = 3 -> 496 [] OTHER -> 0

Returned(o) == op = o /\ ret.raised = "none"

\* rows of a frame whose timestamp is the model stamp of month m
RowsOfMonth(frame, m) ==
    {i \in 1..Len(frame.rows) : frame.rows[i].time = MonthStamp(m)}

\* C1: calculate_energy_consumption gives every input timestamp the rate
\* 2.42 + surcharge[m] when its month m is in {11,12,1,2,3} and exactly 2.42
\* for every other month, one output row per input row.
C1_RatePerMonth ==
    Returned("baseline_energy") =>
        /\ Len(ret.value.rows) = Len(indoor.rows)
        /\ \A m \in 1..12 : \A i \in RowsOfMonth(indoor, m) :
              /\ ret.value.rows[i].time = indoor.rows[i].time
              /\ ret.value.rows[i].energy = 242 + StatedSurcharge(m)
              /\ (m \notin {11, 12, 1, 2, 3} => ret.value.rows[i].energy = 242)

C1_Witness ==
    /\ Returned("baseline_energy")
    /\ RowsOfMonth(indoor, 3) # {}
    /\ RowsOfMonth(indoor, 4) # {}
    /\ \E i \in 1..Len(ret.value.rows) : ret.value.rows[i].energy = 738

\* C2 as stated: the January rate 9.09 is the annual maximum (no sample of
\* any month is rated above a January sample) and the July rate 2.42 is the
\* minimum.
C2_JanuaryIsMaximum ==
    Returned("baseline_energy") =>
        \A i \in 1..Len(ret.value.rows) :
            /\ (i \in RowsOfMonth(indoor, 1) =>
                   /\ ret.value.rows[i].energy = 909
                   /\ \A j \in 1..Len(ret.value.rows) :
                          ret.value.rows[j].energy <= ret.value.rows[i].energy)
            /\ (i \in RowsOfMonth(indoor, 7) =>
                   /\ ret.value.rows[i].energy = 242
                   /\ \A j \in 1..Len(ret.value.rows) :
                          ret.value.rows[i].energy <= ret.value.rows[j].energy)

\* C2 amended: the February rate 9.18 = 2.42 + 6.76 is the annual maximum,
\* the January rate is 9.09, and the July rate 2.42 is the minimum.
C2_FebruaryIsMaximum ==
    Returned("baseline_energy") =>
        \A i \in 1..Len(ret.value.rows) :
            /\ (i \in RowsOfMonth(indoor, 1) => ret.value.rows[i].energy = 909)
            /\ (i \in RowsOfMonth(indoor, 2) =>
                   /\ ret.value.rows[i].energy = 918
                   /\ \A j \in 1..Len(ret.value.rows) :
                          ret.value.rows[j].energy <= ret.value.rows[i].energy)
            /\ (i \in RowsOfMonth(indoor, 7) =>
                   /\ ret.value.rows[i].energy = 242
                   /\ \A j \in 1..Len(ret.value.rows) :
                          ret.value.rows[i].energy <= ret.value.rows[j].energy)

C2_Witness ==
    /\ Returned("baseline_energy")
    /\ RowsOfMonth(indoor, 1) # {}
    /\ RowsOfMonth(indoor, 2) # {}
    /\ \E i, j \in 1..Len(ret.value.rows) :
          ret.value.rows[i].energy < ret.value.rows[j].energy

RECURSIVE StatedGasEnergy(_)
\* sum over the samples of 0.34 + surcharge(month), in 1e-2 kWh
StatedGasEnergy(rows) ==
    IF rows = <<>> THEN 0
    ELSE 34 + StatedSurcharge(Month(Head(rows).time)) + StatedGasEnergy(Tail(rows))

\* count * 2.08 * 0.15 + (sum of 0.34 + surcharge) * 0.0226, in 1e-6 USD
StatedCost(rows) == Len(rows) * 208 * 1500 + StatedGasEnergy(rows) * 226

\* C3: calculate_all_metrics returns cost_usd = count * 2.08 * 0.15 +
\* (sum of (0.34 + surcharge(month))) * 0.0226, which is not
\* total_energy_kwh * 0.15, whatever electricity_rate is passed.
C3_CostIsElectricPlusGas ==
    Returned("all_metrics") =>
        /\ ret.value.cost_usd = StatedCost(indoor.rows)
        /\ (indoor.rows # <<>> =>
               /\ ret.value.cost_usd # ret.value.total_energy_kwh * 1500
               /\ ret.value.cost_usd # ret.value.total_energy_kwh * args.electricity_rate)

C3_Witness ==
    /\ Returned("all_metrics")
    /\ args.electricity_rate # 1500
    /\ RowsOfMonth(indoor, 12) # {}
    /\ RowsOfMonth(indoor, 6) # {}
    /\ ret.value.cost_usd = 2 * 312000 + (34 + 475 + 34) * 226

\* USD in 1e-6 rounded to the cent
RoundCent(usd) == (usd + 5000) \div 10000

\* C4 as stated: 100 January samples give total_energy_kwh = 909 and
\* cost_usd = 47.02 to the cent.
C4_JanuaryScenarioStated ==
    (Returned("all_metrics") /\ indoor = JanuarySeries) =>
        /\ ret.value.total_energy_kwh = 90900
        /\ RoundCent(ret.value.cost_usd) = 4702

\* C4 amended: 100 January samples give total_energy_kwh = 909 and
\* cost_usd = 31.2 + 15.8426 = 47.0426, which is 47.04 to the cent.
C4_JanuaryScenario ==
    (Returned("all_metrics") /\ indoor = JanuarySeries) =>
        /\ ret.value.total_energy_kwh = 90900
        /\ ret.value.cost_usd = 31200000 + 15842600
        /\ RoundCent(ret.value.cost_usd) = 4704

C4_Witness ==
    /\ Returned("all_metrics")
    /\ indoor = JanuarySeries
    /\ Len(ret.value.energy_df.rows) = 100

----------------------------------------------------------------------------
(* Properties of the thermal model *)

ValidCall == args.mode \in {"heating", "cooling"} /\ args.control_type \in {"mpc", "rbc"}

\* the slope of the module constants for a (mode, strategy), in 1e-10
ConstantC1(mode, control_type) ==
    CASE mode = "heating" /\ control_type = "rbc" -> RBC_C1_HEATING
      [] mode = "heating" /\ control_type = "mpc" -> MPC_C1_HEATING
      [] mode = "cooling" /\ control_type = "rbc" -> RBC_C1_COOLING
      [] mode = "cooling" /\ control_type = "mpc" -> MPC_C1_COOLING

\* the coefficient table as the specification states it: slope to eight
\* decimals (in 1e-8), intercept in tenths
StatedC1(mode, control_type) ==
    CASE mode = "heating" /\ control_type = "rbc" -> 19583333
      [] mode = "heating" /\ control_type = "mpc" -> 15958333
      [] mode = "cooling" /\ control_type = "rbc" -> 12666667
      [] mode = "cooling" /\ control_type = "mpc" -> 10916667

StatedC2(mode) == IF mode = "heating" THEN -80 ELSE 64

\* a slope in 1e-10 rounded to eight decimals
Round8(c1) == (c1 + 50) \div 100

\* max(0, c1 * (tin - tout) + c2) in 1e-13
StatedEnergy(c1, tin, tout, c2) ==
    LET lin == Linear(c1, tin, tout, c2)
    IN  IF NumLess(lin, NumZero) THEN NumZero ELSE lin

\* the aligned pairs of the two argument frames
Aligned == JoinRows(indoor.rows, outdoor.rows)

\* C5: for every aligned pair and every valid (mode, strategy) the thermal
\* model outputs max(0, C1 * (Tin - Tout) + C2), C1 being the stated table
\* entry to its eight decimals and C2 the stated intercept; where the linear
\* value is negative the output is exactly 0.
C5_ClippedLinear ==
    (Returned("thermal_energy") /\ ValidCall) =>
        LET c1 == ConstantC1(args.mode, args.control_type)
            c2 == StatedC2(args.mode)
        IN  /\ Round8(c1) = StatedC1(args.mode, args.control_type)
            /\ Len(ret.value.rows) = Len(Aligned)
            /\ \A i \in 1..Len(Aligned) :
                  /\ ret.value.rows[i].energy =
                         StatedEnergy(c1, Aligned[i].value_indoor,
                                      Aligned[i].value_outdoor, c2)
                  /\ ~NumNeg(ret.value.rows[i].energy)
                  /\ (NumNeg(Linear(c1, Aligned[i].value_indoor,
                                    Aligned[i].value_outdoor, c2))
                         => ret.value.rows[i].energy = NumZero)

C5_Witness ==
    /\ Returned("thermal_energy")
    /\ args.mode = "heating" /\ args.control_type = "rbc"
    /\ \E i, j \in 1..Len(ret.value.rows) :
          /\ Aligned[i].value_indoor - Aligned[i].value_outdoor = 10
          /\ ret.value.rows[i].energy = NumZero
          /\ Aligned[j].value_indoor - Aligned[j].value_outdoor = 70
          /\ ret.value.rows[j].energy = [hi |-> 57083333, lo |-> 310000]

Times(frame) == {frame.rows[i].time : i \in 1..Len(frame.rows)}

UniqueTimes(frame) == Cardinality(Times(frame)) = Len(frame.rows)

HasTime(frame) == "_time" \in frame.columns

C7_InvalidModeOrStrategyFails ==
    (op = "thermal_energy" /\ ~ValidCall) => ret.raised # "none"

\* C8 as stated: calculate_total_energy_savings returns the sum of the RBC
\* energies minus the sum of the MPC energies, in the unit of the series.
C8_SavingsInSeriesUnit ==
    Returned("all_savings") =>
        ret.value.energy_savings_kwh =
            NumSub(NumSumEnergy(ret.value.rbc_energy.rows),
                   NumSumEnergy(ret.value.mpc_energy.rows))

\* C8 amended: calculate_total_energy_savings returns the sum of the RBC
\* energies minus the sum of the MPC energies divided by 1000.
C8_SavingsDividedBy1000 ==
    Returned("all_savings") =>
        LET diff == NumSub(NumSumEnergy(ret.value.rbc_energy.rows),
                           NumSumEnergy(ret.value.mpc_energy.rows))
        IN  /\ NumScale(ret.value.energy_savings_kwh, 1000) = diff
            /\ NumRem1000(diff) = 0

C8_Witness ==
    /\ Returned("all_savings")
    /\ args.mode = "heating"
    /\ NumLess(NumZero, ret.value.energy_savings_kwh)
    /\ NumLess(NumZero, NumSumEnergy(ret.value.mpc_energy.rows))

\* C9: on an empty indoor series the baseline model returns an empty energy
\* series and calculate_all_metrics returns total_energy_kwh = 0,
\* cost_usd = 0, co2_kg = 0 and equivalent_km = 0, without raising.
C9_EmptyIndoorGivesZeros ==
    (op \in {"baseline_energy", "all_metrics"} /\ indoor.rows = <<>>) =>
        /\ ret.raised = "none"
        /\ (op = "baseline_energy" => ret.value.rows = <<>>)
        /\ (op = "all_metrics" =>
               /\ ret.value.total_energy_kwh = 0
               /\ ret.value.cost_usd = 0
               /\ ret.value.co2_kg = 0
               /\ ret.value.equivalent_km.num = 0)

\* C10: at Tin = Tout the thermal model outputs 0 in heating mode and 6.4 in
\* cooling mode, under MPC and under RBC; so aligned pairs that all have
\* equal indoor and outdoor temperature total 0 in heating mode.
C10_EqualTemperatures ==
    (Returned("thermal_energy") /\ ValidCall) =>
        /\ Len(ret.value.rows) = Len(Aligned)
        /\ \A i \in 1..Len(Aligned) :
              Aligned[i].value_indoor = Aligned[i].value_outdoor =>
                  ret.value.rows[i].energy =
                      IF args.mode = "heating" THEN NumZero
                      ELSE [hi |-> 64000000, lo |-> 0]
        /\ ((args.mode = "heating" /\ \A i \in 1..Len(Aligned) :
                Aligned[i].value_indoor = Aligned[i].value_outdoor)
               => NumSumEnergy(ret.value.rows) = NumZero)

C10_Witness ==
    /\ Returned("thermal_energy")
    /\ args.mode = "heating" /\ args.control_type = "mpc"
    /\ Len(ret.value.rows) = 2
    /\ \A i \in 1..2 : Aligned[i].value_indoor = 20 /\ Aligned[i].value_outdoor = 20
    /\ NumSumEnergy(ret.value.rows) = NumZero

----------------------------------------------------------------------------
(* The calculator with the two slopes of one mode set equal *)

\* calc.mpc_c1_<mode> = calc.rbc_c1_<mode>: the instance fields that
\* __init__ fills are plain attributes
SetEqualSlopes(self, mode) ==
    IF mode = "heating"
    THEN [self EXCEPT !.mpc_c1_heating = self.rbc_c1_heating]
    ELSE [self EXCEPT !.mpc_c1_cooling = self.rbc_c1_cooling]

\* indoor series against outdoor series that are colder or warmer
EqualSlopeInputs ==
    ({EmptyFrame} \cup FramesOver(PairStamps, InTemps, MaxPairLen))
        \X FramesOver(PairStamps, {10, 80}, MaxPairLen)

InitEqualSlopes ==
    /\ \E p \in EqualSlopeInputs : indoor = p[1] /\ outdoor = p[2]
    /\ \E mode \in {"heating", "cooling"} :
           mpc_calc = SetEqualSlopes(MPCCalculator_init, mode)
    /\ Constructed

NextSavings == CallAllSavings

SpecEqualSlopes == InitEqualSlopes /\ [][NextSavings]_vars

SlopesEqual(self, mode) ==
    IF mode = "heating" THEN self.mpc_c1_heating = self.rbc_c1_heating
    ELSE self.mpc_c1_cooling = self.rbc_c1_cooling

\* C11: with the MPC slope and the RBC slope of the mode equal,
\* calculate_all_savings_metrics returns energy savings, cost savings, CO2
\* savings and equivalent miles that are all 0, on every input it accepts.
C11_EqualSlopesSaveNothing ==
    (Returned("all_savings") /\ args.mode \in {"heating", "cooling"}
        /\ SlopesEqual(mpc_calc, args.mode)) =>
        /\ ret.value.energy_savings_kwh = NumZero
        /\ ret.value.cost_savings_usd = NumZero
        /\ ret.value.co2_savings_lbs = NumZero
        /\ ret.value.equivalent_miles.num = NumZero

\* two aligned samples that need heating under both strategies
C11_Witness ==
    /\ Returned("all_savings") /\ args.mode = "heating"
    /\ SlopesEqual(mpc_calc, "heating")
    /\ Len(ret.value.mpc_energy.rows) = 2
    /\ NumLess(NumZero, NumSumEnergy(ret.value.mpc_energy.rows))
    /\ ret.value.energy_savings_kwh = NumZero
    /\ ret.value.equivalent_miles.num = NumZero

----------------------------------------------------------------------------
(* The baseline metrics and the scalar conversions behind them *)

\* energies in 1e-2 kWh: 0, single samples, the January scenario and multiples
Energies == {0, 1, 242, 909, 90900, 909000}

\* calculate_cost(energy_kwh) with the rate defaulted, or
\* calculate_cost(energy_kwh, electricity_rate)
CallCalculateCost ==
    /\ op = "none"
    /\ \E e \in Energies :
        \/ /\ args' = [energy_kwh |-> e]
           /\ ret' = Return(calculate_cost(e, DEFAULT_ELECTRICITY_RATE))
        \/ \E rate \in {1, 2000} :
               /\ args' = [energy_kwh |-> e, electricity_rate |-> rate]
               /\ ret' = Return(calculate_cost(e, rate))
    /\ op' = "calculate_cost"
    /\ UNCHANGED <<stdout, locals, threads, indoor, outdoor, energy_calc, mpc_calc>>

\* calculate_co2_emissions(energy_kwh), co2_per_kwh defaulted
CallCalculateCo2 ==
    /\ op = "none"
    /\ \E e \in Energies :
        /\ args' = [energy_kwh |-> e]
        /\ ret' = Return(calculate_co2_emissions(e, CO2_PER_KWH))
    /\ op' = "calculate_co2_emissions"
    /\ UNCHANGED <<stdout, locals, threads, indoor, outdoor, energy_calc, mpc_calc>>

\* calculate_equivalent_km_driven(calculate_co2_emissions(energy_kwh)),
\* kg_per_km defaulted
CallEquivalentKm ==
    /\ op = "none"
    /\ \E e \in Energies :
        LET co2_kg == calculate_co2_emissions(e, CO2_PER_KWH)
        IN  /\ args' = [energy_kwh |-> e, co2_kg |-> co2_kg]
            /\ ret' = Return(calculate_equivalent_km_driven(co2_kg, KG_PER_KM))
    /\ op' = "calculate_equivalent_km_driven"
    /\ UNCHANGED <<stdout, locals, threads, indoor, outdoor, energy_calc, mpc_calc>>

InitMetrics ==
    /\ \E p \in BaselineInputs \cup ScenarioInputs : indoor = p[1] /\ outdoor = p[2]
    /\ mpc_calc = MPCCalculator_init
    /\ Constructed

NextMetrics ==
    \/ CallAllMetrics
    \/ CallCalculateCost
    \/ CallCalculateCo2
    \/ CallEquivalentKm

SpecMetrics == InitMetrics /\ [][NextMetrics]_vars

RECURSIVE SeriesSum(_, _)
\* the first n energies of a series added up from the last one down
SeriesSum(rows, n) ==
    IF n = 0 THEN 0 ELSE SeriesSum(rows, n - 1) + rows[n].energy

\* C12: calculate_all_metrics returns total_energy_kwh equal to the sum of the
\* energy series it returns, co2_kg equal to that total times 0.417 and
\* equivalent_km equal to co2_kg / 0.222; calculate_cost(e, r) returns e * r,
\* with r = 0.15 when the rate is not passed.
C12_TotalsAndLinearMaps ==
    /\ Returned("all_metrics") =>
          LET v == ret.value
          IN  /\ v.total_energy_kwh = SeriesSum(v.energy_df.rows, Len(v.energy_df.rows))
              /\ v.co2_kg = v.total_energy_kwh * 417
              /\ v.equivalent_km.num = v.co2_kg
              /\ v.equivalent_km.den = 222
    /\ Returned("calculate_cost") =>
          ret.value = args.energy_kwh *
              (IF "electricity_rate" \in DOMAIN args THEN args.electricity_rate ELSE 1500)

\* a January and a July sample: 9.09 + 2.42 kWh
C12_Witness ==
    /\ Returned("all_metrics")
    /\ Len(ret.value.energy_df.rows) = 2
    /\ ret.value.total_energy_kwh = 909 + 242
    /\ ret.value.co2_kg = 1151 * 417
    /\ ret.value.equivalent_km = [num |-> 479967, den |-> 222]

\* a / b < c / b for fractions over the same positive denominator
FracLess(x, y) == x.den = y.den /\ x.den > 0 /\ x.num < y.num

\* C13: with their default factors calculate_cost, calculate_co2_emissions and
\* calculate_equivalent_km_driven after calculate_co2_emissions return 0 at
\* energy 0 and a strictly larger value at a strictly larger energy.
C13_ZeroAtZeroStrictlyIncreasing ==
    /\ (Returned("calculate_cost") /\ "electricity_rate" \notin DOMAIN args) =>
          /\ (args.energy_kwh = 0 => ret.value = 0)
          /\ \A e1 \in Energies : e1 < args.energy_kwh =>
                 calculate_cost(e1, DEFAULT_ELECTRICITY_RATE) < ret.value
    /\ Returned("calculate_co2_emissions") =>
          /\ (args.energy_kwh = 0 => ret.value = 0)
          /\ \A e1 \in Energies : e1 < args.energy_kwh =>
                 calculate_co2_emissions(e1, CO2_PER_KWH) < ret.value
    /\ Returned("calculate_equivalent_km_driven") =>
          /\ (args.energy_kwh = 0 => ret.value.num = 0 /\ ret.value.den > 0)
          /\ \A e1 \in Energies : e1 < args.energy_kwh =>
                 FracLess(calculate_equivalent_km_driven(
                              calculate_co2_emissions(e1, CO2_PER_KWH), KG_PER_KM),
                          ret.value)

\* the cost of 0.01 kWh: above the cost of nothing, below a cent
C13_Witness ==
    /\ Returned("calculate_cost") /\ "electricity_rate" \notin DOMAIN args
    /\ args.energy_kwh = 1
    /\ ret.value > calculate_cost(0, DEFAULT_ELECTRICITY_RATE)
    /\ ret.value < 10000

----------------------------------------------------------------------------
(* The baseline model reads the calendar months and nothing else *)

\* the same samples with every temperature replaced by v
WithValues(frame, v) ==
    [frame EXCEPT !.rows = [i \in 1..Len(frame.rows) |-> [frame.rows[i] EXCEPT !.value = v]]]

\* a timestamp moved by h hours, the other way if that would leave its month
Respaced(t, h) ==
    IF t + h >= 0 /\ t + h < HoursInYear /\ Month(t + h) = Month(t) THEN t + h
    ELSE IF t - h >= 0 /\ t - h < HoursInYear /\ Month(t - h) = Month(t) THEN t - h
    ELSE t

\* the same samples spaced differently inside their months
WithSpacing(frame, h) ==
    [frame EXCEPT !.rows =
        [i \in 1..Len(frame.rows) |->
            [frame.rows[i] EXCEPT !.time = Respaced(frame.rows[i].time, h * i)]]]

Months(frame) == [i \in 1..Len(frame.rows) |-> Month(frame.rows[i].time)]

EnergiesOf(frame) == [i \in 1..Len(frame.rows) |-> frame.rows[i].energy]

\* indoor series with the month sequence of the one passed, at other
\* temperatures and other spacings
SameMonthVariants(frame) ==
    {WithSpacing(WithValues(frame, v), h) : v \in {-5, 20, 95}, h \in {-30, 0, 1, 30}}

OutdoorVariants ==
    {EmptyFrame, Frame(<<>>), Frame(<<[time |-> 0, value |-> 10]>>),
     Frame(<<[time |-> 4000, value |-> 80], [time |-> 1, value |-> 20]>>)}

\* C14: the baseline output depends only on the sequence of calendar months of
\* the indoor timestamps: a run on other temperature values, another outdoor
\* series and another spacing inside the same months returns the same energy
\* samples and the same total.
C14_OnlyMonthsMatter ==
    Returned("baseline_energy") =>
        \A other \in SameMonthVariants(indoor), other_outdoor \in OutdoorVariants :
            LET run == EnergyCalculator_calculate_energy_consumption(
                           energy_calc, other, other_outdoor)
            IN  /\ Months(other) = Months(indoor)
                /\ run.raised = "none"
                /\ EnergiesOf(run.value) = EnergiesOf(ret.value)
                /\ calculate_total_energy(run.value) = calculate_total_energy(ret.value)

\* a February and a November sample, compared with runs at other temperatures
\* whose samples lie 30 and 60 hours elsewhere in those months
C14_Witness ==
    /\ Returned("baseline_energy")
    /\ Months(indoor) = <<2, 11>>
    /\ \E other \in SameMonthVariants(indoor) :
           /\ other.rows[1].time # indoor.rows[1].time
           /\ other.rows[2].time # indoor.rows[2].time
           /\ other.rows[1].value # indoor.rows[1].value
    /\ EnergiesOf(ret.value) = <<918, 485>>

\* C15: the baseline model returns exactly one energy sample per input sample,
\* in input order, each carrying the timestamp of its input sample.
C15_OneSamplePerInputInOrder ==
    Returned("baseline_energy") =>
        /\ ret.value.columns = {"_time", "energy"}
        /\ Len(ret.value.rows) = Len(indoor.rows)
        /\ \A i \in 1..Len(indoor.rows) :
               /\ ret.value.rows[i].time = indoor.rows[i].time
               /\ ret.value.rows[i].energy = 242 + StatedSurcharge(Month(indoor.rows[i].time))

\* a December sample followed by a March one: returned in that order
C15_Witness ==
    /\ Returned("baseline_energy")
    /\ Len(indoor.rows) = 2
    /\ Months(indoor) = <<12, 3>>
    /\ indoor.rows[1].time > indoor.rows[2].time
    /\ ret.value.rows[1].time = indoor.rows[1].time
    /\ EnergiesOf(ret.value) = <<717, 738>>

----------------------------------------------------------------------------
(* simulate_outdoor_temperature (energy_savings.py, repeated in mpc.py) *)
(* Timestamps are whole hours since 2025-01-01 00:00, freq is a whole   *)
(* number of hours, simulated temperatures are in 1e-6 degrees.         *)

\* default base_temp of simulate_outdoor_temperature
DEFAULT_BASE_TEMP == 40

\* default amplitude of simulate_outdoor_temperature
DEFAULT_AMPLITUDE == 20

\* np.sin(2 * np.pi * k / 24) to six decimals, for 0 <= k <= 6
QuarterSine ==
    <<0, 258819, 500000, 707107, 866025, 965926, 1000000>>

RECURSIVE Sin24(_)
\* np.sin(2 * np.pi * k / 24) to six decimals, in 1e-6
Sin24(k) ==
    IF k < 0 THEN -Sin24(-k)
    ELSE IF k <= 6 THEN QuarterSine[k + 1]
    ELSE IF k <= 12 THEN QuarterSine[12 - k + 1]
    ELSE -Sin24(k - 12)

\* the range that stops short of end_date
pd_date_range_end_exclusive(start, end, freq) ==
    IF start >= end THEN <<>>
    ELSE [k \in 1..((end - start - 1) \div freq + 1) |-> start + (k - 1) * freq]

\* pd.date_range(start=start, end=end, freq=freq): start + k * freq up to and
\* including end, empty when start is after end
pd_date_range(start, end, freq) ==
    IF start > end THEN <<>>
    ELSE [k \in 1..((end - start) \div freq + 1) |-> start + (k - 1) * freq]

\* the sine taken of the hour itself
TempVariation_unshifted(amplitude, hour) == amplitude * Sin24(hour)

\* amplitude * np.sin(2 * np.pi * (hours - 6) / 24)
TempVariation(amplitude, hour) == amplitude * Sin24(hour - 6)

simulate_outdoor_temperature(start_date, end_date, base_temp, amplitude, freq) ==
    LET date_range == pd_date_range(start_date, end_date, freq)
    IN  Frame([i \in 1..Len(date_range) |->
            [time  |-> date_range[i],
             value |-> base_temp * Base + TempVariation(amplitude, Hour(date_range[i]))]])

\* latest hour enumerated for start_date and end_date
MaxSimHour == 26

SimFreqs == {1, 2, 3, 5}

SimAmplitudes == {DEFAULT_AMPLITUDE, 5, 0}

\* simulate_outdoor_temperature(start_date, end_date, amplitude=.., freq=..)
CallSimulateOutdoor ==
    /\ op = "none"
    /\ \E start_date \in 0..MaxSimHour, end_date \in 0..MaxSimHour,
          amplitude \in SimAmplitudes, freq \in SimFreqs :
        /\ args' = [start_date |-> start_date, end_date |-> end_date,
                    base_temp |-> DEFAULT_BASE_TEMP, amplitude |-> amplitude,
                    freq |-> freq]
        /\ ret' = Return(simulate_outdoor_temperature(
                      start_date, end_date, DEFAULT_BASE_TEMP, amplitude, freq))
    /\ op' = "simulate_outdoor_temperature"
    /\ UNCHANGED <<stdout, locals, threads, indoor, outdoor, energy_calc, mpc_calc>>

InitSimulate ==
    /\ indoor = EmptyFrame /\ outdoor = EmptyFrame
    /\ mpc_calc = MPCCalculator_init
    /\ Constructed

NextSimulate == CallSimulateOutdoor

SpecSimulate == InitSimulate /\ [][NextSimulate]_vars

TimesOf(frame) == [i \in 1..Len(frame.rows) |-> frame.rows[i].time]

\* C16: simulate_outdoor_temperature(start, end, freq) returns samples exactly
\* at the timestamps start + k * freq that are not after end, in ascending
\* order, and no sample when start is after end.
C16_SamplesAtCadence ==
    Returned("simulate_outdoor_temperature") =>
        LET times == TimesOf(ret.value)
        IN  /\ {times[i] : i \in 1..Len(times)} =
                  {t \in args.start_date..args.end_date :
                       (t - args.start_date) % args.freq = 0}
            /\ \A i \in 1..(Len(times) - 1) : times[i + 1] = times[i] + args.freq
            /\ (args.start_date <= args.end_date => times[1] = args.start_date)
            /\ (args.start_date > args.end_date => ret.value.rows = <<>>)

\* 03:00 to 09:00 every three hours: the last sample falls on end
C16_Witness ==
    /\ Returned("simulate_outdoor_temperature")
    /\ args.start_date = 3 /\ args.end_date = 9 /\ args.freq = 3
    /\ TimesOf(ret.value) = <<3, 6, 9>>

\* the simulated temperature at hour-of-day h in the returned series, as a set
ValuesAtHour(frame, h) ==
    {frame.rows[i].value : i \in {j \in 1..Len(frame.rows) : Hour(frame.rows[j].time) = h}}

HoursOf(frame) == {Hour(frame.rows[i].time) : i \in 1..Len(frame.rows)}

\* C17 as stated: for amplitude > 0 the simulated temperature is lowest at
\* 06:00 and highest 12 hours later, at 18:00.
C17_TroughAtSix ==
    (Returned("simulate_outdoor_temperature") /\ args.amplitude > 0) =>
        \A i \in 1..Len(ret.value.rows) :
            /\ \A v \in ValuesAtHour(ret.value, 6) : v <= ret.value.rows[i].value
            /\ \A v \in ValuesAtHour(ret.value, 18) : v >= ret.value.rows[i].value

\* C17: for amplitude > 0 the simulated temperature is a function of the hour
\* of day that is lowest at 00:00 (base_temp - amplitude) and highest 12 hours
\* later, at 12:00 (base_temp + amplitude); at 06:00 and at 18:00 it equals
\* base_temp.
C17_TroughAtMidnight ==
    (Returned("simulate_outdoor_temperature") /\ args.amplitude > 0) =>
        /\ \A h \in HoursOf(ret.value) : Cardinality(ValuesAtHour(ret.value, h)) = 1
        /\ ValuesAtHour(ret.value, 0) \subseteq {(args.base_temp - args.amplitude) * 1000000}
        /\ ValuesAtHour(ret.value, 12) \subseteq {(args.base_temp + args.amplitude) * 1000000}
        /\ ValuesAtHour(ret.value, 6) \subseteq {args.base_temp * 1000000}
        /\ ValuesAtHour(ret.value, 18) \subseteq {args.base_temp * 1000000}
        /\ \A i \in 1..Len(ret.value.rows) :
               LET h == Hour(ret.value.rows[i].time)
                   v == ret.value.rows[i].value
               IN  /\ (h # 0 => v > (args.base_temp - args.amplitude) * 1000000)
                   /\ (h # 12 => v < (args.base_temp + args.amplitude) * 1000000)

\* a full day and two hours at the default amplitude, sampled every hour
C17_Witness ==
    /\ Returned("simulate_outdoor_temperature")
    /\ args.amplitude = 20 /\ args.freq = 1
    /\ HoursOf(ret.value) = 0..23
    /\ Len(ret.value.rows) > 24
    /\ ValuesAtHour(ret.value, 0) = {20000000}
    /\ ValuesAtHour(ret.value, 6) = {40000000}
    /\ ValuesAtHour(ret.value, 12) = {60000000}

----------------------------------------------------------------------------
(* The energy callbacks of the dashboard (app.py) *)
(* A database db is [failing, indoor, outdoor, total_home_demand_kwh]:  *)
(* the queries that raise inside InfluxDBHelper.query, the frames the   *)
(* two temperature queries yield and the kWh that total_home_demand     *)
(* sums to (0 when it has no rows).                                     *)

\* DataFrame.empty
df_empty(df) == df.columns = {} \/ df.rows = <<>>

\* InfluxDBHelper.query: the frame, or pd.DataFrame() and a printed line when
\* the query raises
InfluxDBHelper_query(db, name, tables) ==
    IF name \in db.failing
    THEN [df |-> EmptyFrame, printed |-> <<"Query error">>]
    ELSE [df |-> tables, printed |-> <<>>]

get_indoor_temperature(db) == InfluxDBHelper_query(db, "indoor", db.indoor)

get_outdoor_temperature(db) == InfluxDBHelper_query(db, "outdoor", db.outdoor)

\* total_kwh when the query yields a non-empty frame with '_value', else 0
get_actual_energy_consumption(db) ==
    LET q == InfluxDBHelper_query(db, "actual",
                 IF db.total_home_demand_kwh = 0 THEN EmptyFrame
                 ELSE [columns |-> {"_value"}, rows |-> <<[value |-> db.total_home_demand_kwh]>>])
    IN  [value |-> IF ~df_empty(q.df) /\ "_value" \in q.df.columns
                   THEN q.df.rows[1].value ELSE 0,
         printed |-> q.printed]

\* df['_time'].min() and .max() of a frame with rows
TimeMin(df) == CHOOSE t \in {df.rows[i].time : i \in 1..Len(df.rows)} :
                   \A i \in 1..Len(df.rows) : t <= df.rows[i].time

TimeMax(df) == CHOOSE t \in {df.rows[i].time : i \in 1..Len(df.rows)} :
                   \A i \in 1..Len(df.rows) : t >= df.rows[i].time

\* the two temperature queries and "if outdoor_df.empty and not
\* indoor_df.empty: outdoor_df = simulate_outdoor_temperature(min, max)"
TemperatureFeeds(db) ==
    LET i == get_indoor_temperature(db)
        o == get_outdoor_temperature(db)
        printed == i.printed \o o.printed
    IN  IF df_empty(o.df) /\ ~df_empty(i.df)
        THEN IF "_time" \notin i.df.columns
             THEN [raised |-> "KeyError", indoor_df |-> i.df, outdoor_df |-> o.df,
                   printed |-> printed]
             ELSE [raised |-> "none", indoor_df |-> i.df,
                   outdoor_df |-> simulate_outdoor_temperature(
                       TimeMin(i.df), TimeMax(i.df),
                       DEFAULT_BASE_TEMP, DEFAULT_AMPLITUDE, 1),
                   printed |-> printed]
        ELSE [raised |-> "none", indoor_df |-> i.df, outdoor_df |-> o.df,
              printed |-> printed]

create_error_figure(message) == [kind |-> "error_figure", text |-> message]

plot_timeseries(df, title) == [kind |-> "timeseries", df |-> df, title |-> title]

plot_stat(value, title, color) ==
    [kind |-> "stat", value |-> value, title |-> title, color |-> color,
     annotations |-> <<>>]

plot_bar_gauge(values, colors) ==
    [kind |-> "bar_gauge", values |-> values, colors |-> colors]

\* the hand-built figure of update_co2_emissions
co2_figure(text, color, values) ==
    [kind |-> "figure", text |-> text, color |-> color, values |-> values]

FeedLocals(name, f) ==
    [callback |-> name, indoor_df |-> f.indoor_df, outdoor_df |-> f.outdoor_df]

update_energy_consumption(self, db) ==
    LET f == TemperatureFeeds(db)
        energy_df == EnergyCalculator_calculate_energy_consumption(
                         self, f.indoor_df, f.outdoor_df)
    IN  [printed |-> f.printed,
         locals  |-> FeedLocals("update_energy_consumption", f),
         figure  |->
            IF f.raised # "none" THEN create_error_figure("Error")
            ELSE IF ~df_empty(f.indoor_df) /\ ~df_empty(f.outdoor_df)
            THEN IF energy_df.raised # "none" THEN create_error_figure("Error")
                 ELSE plot_timeseries(energy_df.value, "House Energy Consumption Over Time")
            ELSE create_error_figure("No data available")]

\* the guard without its actual_kwh conjunct
SavingsGuard_temperatures_only(indoor_df, outdoor_df, actual_kwh) ==
    ~df_empty(indoor_df) /\ ~df_empty(outdoor_df)

\* if not indoor_df.empty and not outdoor_df.empty and actual_kwh > 0
SavingsGuard(indoor_df, outdoor_df, actual_kwh) ==
    ~df_empty(indoor_df) /\ ~df_empty(outdoor_df) /\ actual_kwh > 0

\* the title of the stat panel when nothing was computed
SENTINEL_TITLE == "Total Energy Savings\nActual - Average House"

update_total_energy(self, db) ==
    LET actual == get_actual_energy_consumption(db)
        actual_kwh == actual.value
        f == TemperatureFeeds(db)
        metrics == EnergyCalculator_calculate_all_metrics(
                       self, f.indoor_df, f.outdoor_df, DEFAULT_ELECTRICITY_RATE)
    IN  [printed |-> actual.printed \o f.printed,
         locals  |-> FeedLocals("update_total_energy", f) @@ [actual_kwh |-> actual_kwh],
         figure  |->
            IF f.raised # "none" THEN plot_stat(0, SENTINEL_TITLE, "#E02F44")
            ELSE IF SavingsGuard(f.indoor_df, f.outdoor_df, actual_kwh)
            THEN IF metrics.raised # "none" THEN plot_stat(0, SENTINEL_TITLE, "#E02F44")
                 ELSE
                 LET model_kwh == metrics.value.total_energy_kwh
                     model_cost == metrics.value.cost_usd
                     actual_cost == calculate_cost(actual_kwh, DEFAULT_ELECTRICITY_RATE)
                     savings_kwh == model_kwh - actual_kwh
                     cost_savings == model_cost - actual_cost
                 IN  [plot_stat(savings_kwh, "Total Energy Savings",
                                IF savings_kwh > 0 THEN "#73BF69" ELSE "#E02F44")
                        EXCEPT !.annotations =
                            <<[text |-> "Cost Savings", values |-> <<cost_savings>>],
                              [text |-> "Average House, Actual, Savings",
                               values |-> <<model_kwh, actual_kwh, savings_kwh>>]>>]
            ELSE plot_stat(0, SENTINEL_TITLE, "#888888")]

update_total_cost(self, db) ==
    LET f == TemperatureFeeds(db)
        metrics == EnergyCalculator_calculate_all_metrics(
                       self, f.indoor_df, f.outdoor_df, DEFAULT_ELECTRICITY_RATE)
        actual == get_actual_energy_consumption(db)
        computes == f.raised = "none" /\ ~df_empty(f.indoor_df) /\ ~df_empty(f.outdoor_df)
                        /\ metrics.raised = "none"
    IN  [printed |-> IF computes THEN f.printed \o actual.printed ELSE f.printed,
         locals  |-> IF computes
                     THEN FeedLocals("update_total_cost", f) @@ [actual_kwh |-> actual.value]
                     ELSE FeedLocals("update_total_cost", f),
         figure  |->
            IF f.raised # "none" THEN plot_bar_gauge(<<0, 0>>, <<"#E02F44">>)
            ELSE IF ~df_empty(f.indoor_df) /\ ~df_empty(f.outdoor_df)
            THEN IF metrics.raised # "none" THEN plot_bar_gauge(<<0, 0>>, <<"#E02F44">>)
                 ELSE
                 LET model_cost == metrics.value.cost_usd
                     actual_cost == calculate_cost(actual.value, DEFAULT_ELECTRICITY_RATE)
                 IN  plot_bar_gauge(<<model_cost, actual_cost>>, <<"#FF6B6B", "#4ECDC4">>)
            ELSE plot_bar_gauge(<<0, 0>>, <<"#888888", "#888888">>)]

update_co2_emissions(self, db) ==
    LET actual == get_actual_energy_consumption(db)
        actual_kwh == actual.value
        f == TemperatureFeeds(db)
        metrics == EnergyCalculator_calculate_all_metrics(
                       self, f.indoor_df, f.outdoor_df, DEFAULT_ELECTRICITY_RATE)
    IN  [printed |-> actual.printed \o f.printed,
         locals  |-> FeedLocals("update_co2_emissions", f) @@ [actual_kwh |-> actual_kwh],
         figure  |->
            IF f.raised # "none" THEN co2_figure("Error", "#E02F44", <<>>)
            ELSE IF SavingsGuard(f.indoor_df, f.outdoor_df, actual_kwh)
            THEN IF metrics.raised # "none" THEN co2_figure("Error", "#E02F44", <<>>)
                 ELSE
                 LET model_kwh == metrics.value.total_energy_kwh
                     savings_kwh == model_kwh - actual_kwh
                     equivalent_km == metrics.value.equivalent_km
                 IN  co2_figure("Energy Savings Impact", "#2c3e50",
                                <<savings_kwh, equivalent_km>>)
            ELSE co2_figure("No data available", "#888888", <<>>)]

\* longest temperature series the database yields
MaxFeedLen == 2

\* 2025-01-01 00:00 and 02:00, 2025-02-01 01:00
FeedStamps == {0, 2, 745}

\* what the two temperature queries can yield: no table, or hourly means
FeedInputs ==
    ({EmptyFrame} \cup (FramesOver(FeedStamps, {70}, MaxFeedLen) \ {Frame(<<>>)}))
        \X ({EmptyFrame} \cup (FramesOver({0, 2}, {40}, MaxFeedLen) \ {Frame(<<>>)}))

\* kWh (1e-2) that total_home_demand sums to: a net export, none, less and
\* more than the baseline of the feeds above
ActualKwh == {-300, 0, 500, 2500}

Queries == {"indoor", "outdoor", "actual"}

Databases ==
    {[failing |-> failing, indoor |-> indoor, outdoor |-> outdoor,
      total_home_demand_kwh |-> kwh] : failing \in SUBSET Queries, kwh \in ActualKwh}

\* a Dash callback: what it returns is the figure, also after an exception
Callback(name, run) ==
    /\ op = "none"
    /\ op' = name
    /\ ret' = Return(run.figure)
    /\ locals' = run.locals
    /\ stdout' = stdout \o run.printed

CallUpdateEnergyConsumption ==
    /\ \E db \in Databases :
        /\ args' = [failing |-> db.failing, total_home_demand_kwh |-> db.total_home_demand_kwh]
        /\ Callback("update_energy_consumption", update_energy_consumption(energy_calc, db))
    /\ UNCHANGED <<threads, indoor, outdoor, energy_calc, mpc_calc>>

CallUpdateTotalEnergy ==
    /\ \E db \in Databases :
        /\ args' = [failing |-> db.failing, total_home_demand_kwh |-> db.total_home_demand_kwh]
        /\ Callback("update_total_energy", update_total_energy(energy_calc, db))
    /\ UNCHANGED <<threads, indoor, outdoor, energy_calc, mpc_calc>>

CallUpdateTotalCost ==
    /\ \E db \in Databases :
        /\ args' = [failing |-> db.failing, total_home_demand_kwh |-> db.total_home_demand_kwh]
        /\ Callback("update_total_cost", update_total_cost(energy_calc, db))
    /\ UNCHANGED <<threads, indoor, outdoor, energy_calc, mpc_calc>>

CallUpdateCo2Emissions ==
    /\ \E db \in Databases :
        /\ args' = [failing |-> db.failing, total_home_demand_kwh |-> db.total_home_demand_kwh]
        /\ Callback("update_co2_emissions", update_co2_emissions(energy_calc, db))
    /\ UNCHANGED <<threads, indoor, outdoor, energy_calc, mpc_calc>>

InitDashboard ==
    /\ \E p \in FeedInputs : indoor = p[1] /\ outdoor = p[2]
    /\ mpc_calc = MPCCalculator_init
    /\ Constructed

NextDashboard ==
    \/ CallUpdateEnergyConsumption
    \/ CallUpdateTotalEnergy
    \/ CallUpdateTotalCost
    \/ CallUpdateCo2Emissions

SpecDashboard == InitDashboard /\ [][NextDashboard]_vars

\* what get_outdoor_temperature yielded before any substitution
QueriedOutdoor == IF "outdoor" \in args.failing THEN EmptyFrame ELSE outdoor

\* the callback that ran replaced the missing outdoor feed by a synthetic one
Substituted ==
    /\ locals.callback # "none"
    /\ df_empty(QueriedOutdoor)
    /\ ~df_empty(locals.outdoor_df)

\* C18 as stated: whenever a callback substitutes a synthetic outdoor series,
\* the series carries a tag (something beside '_time' and '_value') or a line
\* about the substitution is printed.
C18_SubstitutionTaggedOrLogged ==
    Substituted =>
        \/ locals.outdoor_df.columns # InputColumns
        \/ \E i \in 1..Len(stdout) : stdout[i] # "Query error"

\* the state C18 fails in: update_energy_consumption plots the baseline over
\* a synthetic outdoor series that looks like a measured one, nothing printed
C18_SilentSubstitution ==
    /\ op = "update_energy_consumption"
    /\ Substituted
    /\ args.failing = {}
    /\ locals.outdoor_df.columns = InputColumns
    /\ stdout = <<>>
    /\ ret.value.kind = "timeseries"

\* upstream retrieval failed or came back empty: no indoor samples, or the
\* actual-consumption query raised and yielded 0
RetrievalFailed ==
    \/ df_empty(locals.indoor_df)
    \/ "actual" \in args.failing

\* the figure shows zeros or a message, in the grey or red of the fallbacks
NoDataOrErrorState(fig) ==
    CASE fig.kind = "stat" ->
             fig.value = 0 /\ fig.title = SENTINEL_TITLE
                 /\ fig.color \in {"#888888", "#E02F44"}
      [] fig.kind = "bar_gauge" ->
             fig.values = <<0, 0>>
                 /\ fig.colors \in {<<"#888888", "#888888">>, <<"#E02F44">>}
      [] fig.kind = "figure" ->
             fig.text \in {"No data available", "Error"} /\ fig.values = <<>>
      [] OTHER -> FALSE

\* C20 as stated: when retrieval fails or returns empty, update_total_energy,
\* update_total_cost and update_co2_emissions each return zero metrics in a
\* 'no data' or 'error' state, and no exception leaves the callback.
C20_FailedRetrievalShowsNoData ==
    (op \in {"update_total_energy", "update_total_cost", "update_co2_emissions"}
        /\ RetrievalFailed) =>
        /\ ret.raised = "none"
        /\ NoDataOrErrorState(ret.value)

\* the state C20 fails in: update_total_cost with indoor samples and a failed
\* actual-consumption query shows the computed bars, the actual cost as 0
C20_CostShownAfterFailedQuery ==
    /\ op = "update_total_cost"
    /\ "actual" \in args.failing /\ ~df_empty(locals.indoor_df)
    /\ locals.actual_kwh = 0
    /\ ret.value.colors = <<"#FF6B6B", "#4ECDC4">>
    /\ ret.value.values[1] > 0 /\ ret.value.values[2] = 0

\* the two sibling callbacks do fall back in that case
C20_SiblingsFallBack ==
    (op \in {"update_total_energy", "update_co2_emissions"} /\ RetrievalFailed) =>
        /\ ret.raised = "none"
        /\ NoDataOrErrorState(ret.value)

----------------------------------------------------------------------------
(* Concurrent invocations on the shared calculators *)
(* Dash serves callbacks from several threads that all call methods of  *)
(* the one module-level energy_calc.  An invocation is a thread record; *)
(* a step is one statement of the method, and statements of different   *)
(* invocations interleave freely.  A statement that assigns a column    *)
(* writes the frame object its local names: the caller's frame too when *)
(* the local is that same object.                                       *)

Threads == {1, 2}

\* longest input series of a concurrent invocation
MaxThreadLen == 2

ThreadInputs ==
    {EmptyFrame} \cup FramesOver({0, MonthStamp(7)}, {20}, MaxThreadLen)

\* the outdoor series passed to the thermal model
ThreadOutdoors == {Frame(<<[time |-> 0, value |-> 10]>>)}

Methods == {"calculate_energy_consumption", "calculate_all_metrics"}

\* an invocation about to run: its arguments and its unassigned locals
Invocation(method, temperature_df, outdoor_temp_df) ==
    [method          |-> method,
     pc              |-> IF method = "thermal_energy_consumption" THEN "merge" ELSE "copy",
     temperature_df  |-> temperature_df,    \* the caller's frame
     outdoor_temp_df |-> outdoor_temp_df,   \* the caller's outdoor frame
     passed          |-> temperature_df,    \* their content when passed
     passed_outdoor  |-> outdoor_temp_df,
     mode            |-> "cooling",
     control_type    |-> "mpc",
     df              |-> EmptyFrame,
     same_object     |-> FALSE,             \* df is the caller's temperature_df
     c               |-> [c1 |-> 0, c2 |-> 0],
     energy_df       |-> EmptyFrame,
     total_energy_kwh |-> 0,
     electric_cost   |-> 0,
     gas_cost        |-> 0,
     ret             |-> Raise("not returned")]

Invocations ==
    {Invocation(m, f, EmptyFrame) : m \in Methods, f \in ThreadInputs}
        \cup {Invocation("thermal_energy_consumption", f, o) :
                  f \in ThreadInputs, o \in ThreadOutdoors}

\* df = temperature_df: the local names the caller's frame
DataFrame_copy_same_object(df) == [frame |-> df, same_object |-> TRUE]

\* temperature_df.copy(): a new frame with the same content
DataFrame_copy(df) == [frame |-> df, same_object |-> FALSE]

\* df[column] = ...: writes the object that df names
WriteFrame(th, frame) ==
    IF th.same_object
    THEN [th EXCEPT !.df = frame, !.temperature_df = frame]
    ELSE [th EXCEPT !.df = frame]

\* the rate of the last row kept on the instance
ApplyEnergy_memoised(self, df) ==
    [self |-> IF df.rows = <<>> THEN self
              ELSE [self EXCEPT !.base_rate = HourlyRate(self, df.rows[Len(df.rows)].month)],
     df   |-> [columns |-> df.columns \cup {"energy"},
               rows    |-> [i \in 1..Len(df.rows) |->
                   [energy |-> HourlyRate(self, df.rows[i].month)] @@ df.rows[i]]]]

\* df['energy'] = df['month'].apply(lambda m: self.base_rate +
\* self.heating_rates.get(m, 0)): reads self, writes the frame
ApplyEnergy(self, df) ==
    [self |-> self,
     df   |-> [columns |-> df.columns \cup {"energy"},
               rows    |-> [i \in 1..Len(df.rows) |->
                   [energy |-> HourlyRate(self, df.rows[i].month)] @@ df.rows[i]]]]

\* one statement of invocation t replaces its record by th
Step(t, from, th) ==
    /\ threads[t].pc = from
    /\ threads' = [threads EXCEPT ![t] = th]

\* df = temperature_df.copy()
StepCopy(t) ==
    LET copy == DataFrame_copy(threads[t].temperature_df)
    IN  /\ Step(t, "copy", [threads[t] EXCEPT !.df = copy.frame,
                                              !.same_object = copy.same_object,
                                              !.pc = "to_datetime"])
        /\ UNCHANGED energy_calc

\* df['_time'] = pd.to_datetime(df['_time']); KeyError ends the invocation
StepToDatetime(t) ==
    /\ Step(t, "to_datetime",
            IF "_time" \notin threads[t].df.columns
            THEN [threads[t] EXCEPT !.ret = Raise("KeyError"), !.pc = "done"]
            ELSE [threads[t] EXCEPT !.pc = "month"])
    /\ UNCHANGED energy_calc

\* df['month'] = df['_time'].dt.month
StepMonth(t) ==
    LET df == threads[t].df
    IN  /\ Step(t, "month",
                [WriteFrame(threads[t],
                    [columns |-> df.columns \cup {"month"},
                     rows    |-> [i \in 1..Len(df.rows) |->
                         [month |-> Month(df.rows[i].time)] @@ df.rows[i]]])
                 EXCEPT !.pc = "energy"])
        /\ UNCHANGED energy_calc

\* df['energy'] = df['month'].apply(...)
StepEnergy(t) ==
    LET r == ApplyEnergy(energy_calc, threads[t].df)
    IN  /\ Step(t, "energy", [WriteFrame(threads[t], r.df) EXCEPT !.pc = "return"])
        /\ energy_calc' = r.self

\* return df[['_time', 'energy']]: to the caller, or to calculate_all_metrics
StepReturn(t) ==
    LET energy_df == [columns |-> {"_time", "energy"},
                      rows    |-> [i \in 1..Len(threads[t].df.rows) |->
                          [time   |-> threads[t].df.rows[i].time,
                           energy |-> threads[t].df.rows[i].energy]]]
    IN  /\ Step(t, "return",
                IF threads[t].method = "calculate_energy_consumption"
                THEN [threads[t] EXCEPT !.ret = Return(energy_df), !.pc = "done"]
                ELSE [threads[t] EXCEPT !.energy_df = energy_df, !.pc = "total"])
        /\ UNCHANGED energy_calc

\* total_energy_kwh = self.calculate_total_energy(energy_df)
StepTotal(t) ==
    /\ Step(t, "total",
            [threads[t] EXCEPT
                !.total_energy_kwh = calculate_total_energy(threads[t].energy_df),
                !.pc = "electric"])
    /\ UNCHANGED energy_calc

\* df = energy_df.copy() .. electric_cost = electric_energy_kwh * self.electric_rate
StepElectric(t) ==
    /\ Step(t, "electric",
            [threads[t] EXCEPT
                !.df = threads[t].energy_df,
                !.same_object = FALSE,
                !.electric_cost = Len(threads[t].energy_df.rows)
                                      * energy_calc.base_rate_electric
                                      * energy_calc.electric_rate,
                !.pc = "gas"])
    /\ UNCHANGED energy_calc

\* df['gas_energy'] = ... ; gas_cost = gas_energy_kwh * self.gas_rate
StepGas(t) ==
    /\ Step(t, "gas",
            [threads[t] EXCEPT
                !.gas_cost = SumGas(energy_calc, threads[t].df.rows) * energy_calc.gas_rate,
                !.pc = "metrics"])
    /\ UNCHANGED energy_calc

\* cost_usd, co2_kg, km_driven and the returned dict
StepMetrics(t) ==
    LET th == threads[t]
        co2_kg == calculate_co2_emissions(th.total_energy_kwh, CO2_PER_KWH)
    IN  /\ Step(t, "metrics",
                [th EXCEPT
                    !.ret = Return([total_energy_kwh |-> th.total_energy_kwh,
                                    cost_usd         |-> th.electric_cost + th.gas_cost,
                                    co2_kg           |-> co2_kg,
                                    equivalent_km    |->
                                        calculate_equivalent_km_driven(co2_kg, KG_PER_KM),
                                    energy_df        |-> th.energy_df]),
                    !.pc = "done"])
        /\ UNCHANGED energy_calc

\* merged = pd.merge(temperature_df, outdoor_temp_df, on='_time', ...): a new
\* frame; KeyError ends the invocation
StepMerge(t) ==
    LET m == pd_merge(threads[t].temperature_df, threads[t].outdoor_temp_df)
    IN  /\ Step(t, "merge",
                IF m.raised # "none"
                THEN [threads[t] EXCEPT !.ret = m, !.pc = "done"]
                ELSE [threads[t] EXCEPT !.df = m.value, !.same_object = FALSE,
                                        !.pc = "select"])
        /\ UNCHANGED energy_calc

\* the if/else that reads c1 and c2 from the MPCCalculator
StepSelect(t) ==
    /\ Step(t, "select",
            [threads[t] EXCEPT
                !.c = SelectCoefficients(mpc_calc, threads[t].mode, threads[t].control_type),
                !.pc = "linear"])
    /\ UNCHANGED energy_calc

\* merged['energy'] = c1 * (merged['_value_indoor'] - merged['_value_outdoor']) + c2
StepLinear(t) ==
    LET th == threads[t]
    IN  /\ Step(t, "linear",
                [WriteFrame(th,
                    [columns |-> th.df.columns \cup {"energy"},
                     rows    |-> [i \in 1..Len(th.df.rows) |->
                         [energy |-> Linear(th.c.c1, th.df.rows[i].value_indoor,
                                            th.df.rows[i].value_outdoor, th.c.c2)]
                             @@ th.df.rows[i]]])
                 EXCEPT !.pc = "clip"])
        /\ UNCHANGED energy_calc

\* merged['energy'] = merged['energy'].clip(lower=0)
StepClip(t) ==
    LET th == threads[t]
    IN  /\ Step(t, "clip",
                [WriteFrame(th,
                    [th.df EXCEPT !.rows = [i \in 1..Len(th.df.rows) |->
                        [th.df.rows[i] EXCEPT !.energy = ClipLower0(@)]]])
                 EXCEPT !.pc = "thermal_return"])
        /\ UNCHANGED energy_calc

\* return merged[['_time', 'energy']]
StepThermalReturn(t) ==
    LET th == threads[t]
    IN  /\ Step(t, "thermal_return",
                [th EXCEPT
                    !.ret = Return([columns |-> {"_time", "energy"},
                                    rows    |-> [i \in 1..Len(th.df.rows) |->
                                        [time   |-> th.df.rows[i].time,
                                         energy |-> th.df.rows[i].energy]]]),
                    !.pc = "done"])
        /\ UNCHANGED energy_calc

InitConcurrent ==
    /\ threads \in [Threads -> Invocations]
    /\ energy_calc = EnergyCalculator_init
    /\ mpc_calc = MPCCalculator_init
    /\ indoor = EmptyFrame /\ outdoor = EmptyFrame
    /\ op = "none"
    /\ args = [electricity_rate |-> DEFAULT_ELECTRICITY_RATE]
    /\ ret = Raise("not called")
    /\ stdout = <<>>
    /\ locals = [callback |-> "none"]

NextConcurrent ==
    /\ \E t \in Threads :
        \/ StepCopy(t)
        \/ StepToDatetime(t)
        \/ StepMonth(t)
        \/ StepEnergy(t)
        \/ StepReturn(t)
        \/ StepTotal(t)
        \/ StepElectric(t)
        \/ StepGas(t)
        \/ StepMetrics(t)
        \/ StepMerge(t)
        \/ StepSelect(t)
        \/ StepLinear(t)
        \/ StepClip(t)
        \/ StepThermalReturn(t)
    /\ UNCHANGED <<indoor, outdoor, mpc_calc, op, args, ret, stdout, locals>>

SpecConcurrent == InitConcurrent /\ [][NextConcurrent]_vars

\* what the invocation returns when it runs with nothing else running
Alone(th) ==
    IF th.method = "calculate_energy_consumption"
    THEN EnergyCalculator_calculate_energy_consumption(
             EnergyCalculator_init, th.passed, th.passed_outdoor)
    ELSE IF th.method = "calculate_all_metrics"
    THEN EnergyCalculator_calculate_all_metrics(
             EnergyCalculator_init, th.passed, th.passed_outdoor, DEFAULT_ELECTRICITY_RATE)
    ELSE MPCCalculator_calculate_energy_consumption(
             MPCCalculator_init, th.passed, th.passed_outdoor, th.mode, th.control_type)

\* C19: under every interleaving of concurrent invocations on the shared
\* EnergyCalculator no invocation writes the rate tables, the calculator's
\* fields or an input series, and each invocation returns what it returns
\* when run alone.
C19_InvocationsDoNotInterfere ==
    /\ energy_calc = EnergyCalculator_init
    /\ energy_calc.heating_rates = HEATING_RATES
    /\ \A t \in DOMAIN threads :
        /\ threads[t].temperature_df = threads[t].passed
        /\ (threads[t].pc = "done" => threads[t].ret = Alone(threads[t]))

\* calculate_all_metrics on a January and a July sample has returned while a
\* calculate_energy_consumption on another series is between its statements
C19_Witness ==
    /\ DOMAIN threads = Threads
    /\ threads[1].method = "calculate_all_metrics" /\ threads[1].pc = "done"
    /\ threads[1].ret.raised = "none"
    /\ threads[1].ret.value.total_energy_kwh = 909 + 242
    /\ threads[2].method = "calculate_energy_consumption" /\ threads[2].pc = "return"
    /\ threads[2].passed # threads[1].passed
    /\ Len(threads[2].df.rows) = 2

----------------------------------------------------------------------------
(* The savings delta of the callbacks *)

\* the figure shows a computed model_kwh - actual_kwh
DeltaComputed(fig) ==
    \/ fig.kind = "stat" /\ fig.title = "Total Energy Savings"
    \/ fig.kind = "figure" /\ fig.text = "Energy Savings Impact"

\* the delta the figure shows
DeltaShown(fig) == IF fig.kind = "stat" THEN fig.value ELSE fig.values[1]

\* the baseline total of the indoor series the callback read
ModelKwh ==
    SeriesSum([i \in 1..Len(locals.indoor_df.rows) |->
                  [energy |-> 242 + StatedSurcharge(Month(locals.indoor_df.rows[i].time))]],
              Len(locals.indoor_df.rows))

----------------------------------------------------------------------------
(* Properties of the savings metrics and of the energy samples *)

\* C22: calculate_all_savings_metrics derives its metrics linearly from the
\* energy savings s: cost_savings_usd = s * electricity_rate, co2_savings_lbs
\* = s * 0.92 and equivalent_miles = co2_savings_lbs / 0.79; 0.92 and 0.79 are
\* not the 0.417 and 0.222 of the baseline aggregator.
C22_SavingsMetricsLinear ==
    Returned("all_savings") =>
        LET s == ret.value.energy_savings_kwh
        IN  /\ ret.value.cost_savings_usd = NumScale(s, args.electricity_rate)
            /\ ret.value.co2_savings_lbs = NumScale(s, 92)
            /\ ret.value.equivalent_miles = [num |-> NumScale(s, 92), den |-> 79]
            /\ CO2_LBS_PER_KWH * 10 # CO2_PER_KWH
            /\ LBS_PER_MILE * 10 # KG_PER_KM

\* positive savings priced at 0.20 $/kWh
C22_Witness ==
    /\ Returned("all_savings")
    /\ args.mode = "heating" /\ args.electricity_rate = 2000
    /\ NumLess(NumZero, ret.value.energy_savings_kwh)
    /\ ret.value.cost_savings_usd = NumScale(ret.value.energy_savings_kwh, 2000)
    /\ ret.value.equivalent_miles.den = 79

\* C23: every energy sample is non-negative: a baseline sample lies in
\* [2.42, 2.42 + 6.76], a thermal sample is >= 0, and total_energy_kwh,
\* cost_usd, co2_kg and equivalent_km of calculate_all_metrics are >= 0.
C23_NonNegative ==
    /\ Returned("baseline_energy") =>
          \A i \in 1..Len(ret.value.rows) :
              242 <= ret.value.rows[i].energy /\ ret.value.rows[i].energy <= 242 + 676
    /\ Returned("thermal_energy") =>
          \A i \in 1..Len(ret.value.rows) : ~NumLess(ret.value.rows[i].energy, NumZero)
    /\ Returned("all_metrics") =>
          /\ ret.value.total_energy_kwh >= 0
          /\ ret.value.cost_usd >= 0
          /\ ret.value.co2_kg >= 0
          /\ ret.value.equivalent_km.num >= 0 /\ ret.value.equivalent_km.den > 0

\* heating at 20 indoors and 80 outdoors: the negative line is clipped to 0
C23_Witness ==
    /\ Returned("thermal_energy") /\ args.mode = "heating" /\ args.control_type = "rbc"
    /\ Len(Aligned) = 1 /\ Len(ret.value.rows) = 1
    /\ Aligned[1].value_indoor = 20 /\ Aligned[1].value_outdoor = 80
    /\ NumLess(Linear(RBC_C1_HEATING, 20, 80, C2_HEATING), NumZero)
    /\ ret.value.rows[1].energy = NumZero

----------------------------------------------------------------------------
(* Frame conditions of the model functions *)

\* C24: calculate_energy_consumption and calculate_all_metrics of the baseline
\* model and calculate_energy_consumption of the thermal model leave their
\* input series as passed (no column added, no value or timestamp rewritten)
\* and leave HEATING_RATES and the other constants, as the calculators hold
\* them, unchanged: at every statement of every invocation.
C24_InputsAndConstantsUnchanged ==
    /\ \A t \in DOMAIN threads :
        /\ threads[t].temperature_df.columns = threads[t].passed.columns
        /\ threads[t].temperature_df.rows = threads[t].passed.rows
        /\ threads[t].outdoor_temp_df = threads[t].passed_outdoor
    /\ energy_calc.heating_rates = HEATING_RATES
    /\ energy_calc = EnergyCalculator_init
    /\ mpc_calc = MPCCalculator_init

\* a baseline invocation that has derived 'month' and 'energy' on its copy and
\* a thermal one that has written 'energy' on the merged frame
C24_Witness ==
    /\ DOMAIN threads = Threads
    /\ threads[1].method = "calculate_energy_consumption" /\ threads[1].pc = "return"
    /\ {"month", "energy"} \subseteq threads[1].df.columns
    /\ threads[1].temperature_df.columns = InputColumns
    /\ Len(threads[1].temperature_df.rows) = 2
    /\ threads[2].method = "thermal_energy_consumption" /\ threads[2].pc = "thermal_return"
    /\ "energy" \in threads[2].df.columns
    /\ Len(threads[2].df.rows) = 1
    /\ threads[2].temperature_df.columns = InputColumns

----------------------------------------------------------------------------
(* The thermal model on one aligned pair, swept over the temperatures *)

\* highest indoor temperature swept
MaxSweepTemp == 50

SweepOutdoor == {0, 5, 10}

InitSweep ==
    /\ \E t_in \in 0..MaxSweepTemp, t_out \in SweepOutdoor :
        /\ indoor = Frame(<<[time |-> 0, value |-> t_in]>>)
        /\ outdoor = Frame(<<[time |-> 0, value |-> t_out]>>)
    /\ mpc_calc = MPCCalculator_init
    /\ Constructed

NextThermal == CallThermalEnergy

SpecSweep == InitSweep /\ [][NextThermal]_vars

\* C25: in heating mode, under MPC and under RBC, the thermal model outputs 0
\* for every aligned pair with Tin - Tout <= 40; indoor 25 and outdoor 5 under
\* RBC give 0.19583333 * 20 - 8 < 0, clipped to 0.
C25_HeatingZeroUpTo40 ==
    (Returned("thermal_energy") /\ args.mode = "heating"
        /\ args.control_type \in {"mpc", "rbc"}) =>
        /\ Len(ret.value.rows) = Len(Aligned)
        /\ \A i \in 1..Len(Aligned) :
               Aligned[i].value_indoor - Aligned[i].value_outdoor <= 40 =>
                   ret.value.rows[i].energy = NumZero

\* indoor 25, outdoor 5, heating under RBC: 1958333333 * 20 - 8e13 < 0
C25_Witness ==
    /\ Returned("thermal_energy") /\ args.mode = "heating" /\ args.control_type = "rbc"
    /\ Aligned = <<[time |-> 0, value_indoor |-> 25, value_outdoor |-> 5]>>
    /\ NumLess(NumAdd(NumScale([hi |-> 1958, lo |-> 333333], 20), [hi |-> -80000000, lo |-> 0]),
               NumZero)
    /\ ret.value.rows[1].energy = NumZero

\* just above: indoor 41, outdoor 0 under RBC gives a positive energy
C25_AboveFortyPositive ==
    (Returned("thermal_energy") /\ args.mode = "heating" /\ args.control_type = "rbc") =>
        \A i \in 1..Len(Aligned) :
            Aligned[i].value_indoor - Aligned[i].value_outdoor > 40 =>
                NumLess(NumZero, ret.value.rows[i].energy)

----------------------------------------------------------------------------
(* Sign and order-independence of the savings *)

\* C26: for each mode and each aligned pair the per-sample saving, RBC energy
\* minus MPC energy, is >= 0 when Tin >= Tout and <= 0 when Tin < Tout; so
\* calculate_total_energy_savings is >= 0 when every aligned pair has
\* Tin >= Tout.
C26_SavingSignFollowsDelta ==
    Returned("all_savings") =>
        LET mpc == ret.value.mpc_energy.rows
            rbc == ret.value.rbc_energy.rows
        IN  /\ Len(mpc) = Len(Aligned) /\ Len(rbc) = Len(Aligned)
            /\ \A i \in 1..Len(Aligned) :
                   IF Aligned[i].value_indoor >= Aligned[i].value_outdoor
                   THEN ~NumLess(rbc[i].energy, mpc[i].energy)
                   ELSE ~NumLess(mpc[i].energy, rbc[i].energy)
            /\ (\A i \in 1..Len(Aligned) :
                    Aligned[i].value_indoor >= Aligned[i].value_outdoor)
                   => ~NumNeg(ret.value.energy_savings_kwh)

\* cooling with one pair warmer indoors and one colder indoors: a positive and
\* a negative per-sample saving
C26_Witness ==
    /\ Returned("all_savings") /\ args.mode = "cooling"
    /\ Len(Aligned) = 2
    /\ Aligned[1].value_indoor > Aligned[1].value_outdoor
    /\ Aligned[2].value_indoor < Aligned[2].value_outdoor
    /\ NumLess(ret.value.mpc_energy.rows[1].energy, ret.value.rbc_energy.rows[1].energy)
    /\ NumLess(ret.value.rbc_energy.rows[2].energy, ret.value.mpc_energy.rows[2].energy)

\* the orders a series of n samples is tried in: every permutation of a short
\* series, the reversal and the rotation by one of a long one
Orders(n) ==
    IF n <= 4
    THEN {p \in [1..n -> 1..n] : \A i, j \in 1..n : p[i] = p[j] => i = j}
    ELSE {[i \in 1..n |-> n + 1 - i], [i \in 1..n |-> (i % n) + 1]}

Permuted(frame, p) ==
    [frame EXCEPT !.rows = [i \in 1..Len(frame.rows) |-> frame.rows[p[i]]]]

\* C27: the scalar results do not depend on the order of the samples:
\* calculate_all_metrics returns the same total_energy_kwh, cost_usd, co2_kg
\* and equivalent_km for every permutation of the indoor samples, and
\* calculate_all_savings_metrics the same energy savings for every permutation
\* of the indoor or of the outdoor samples.
C27_ScalarsIgnoreOrder ==
    /\ Returned("all_metrics") =>
          \A p \in Orders(Len(indoor.rows)) :
              LET run == EnergyCalculator_calculate_all_metrics(
                             energy_calc, Permuted(indoor, p), outdoor,
                             args.electricity_rate)
              IN  /\ run.raised = "none"
                  /\ run.value.total_energy_kwh = ret.value.total_energy_kwh
                  /\ run.value.cost_usd = ret.value.cost_usd
                  /\ run.value.co2_kg = ret.value.co2_kg
                  /\ run.value.equivalent_km = ret.value.equivalent_km
    /\ Returned("all_savings") =>
          \A p \in Orders(Len(indoor.rows)), q \in Orders(Len(outdoor.rows)) :
              LET run == MPCCalculator_calculate_all_savings_metrics(
                             mpc_calc, Permuted(indoor, p), Permuted(outdoor, q),
                             args.mode, args.electricity_rate)
              IN  /\ run.raised = "none"
                  /\ run.value.energy_savings_kwh = ret.value.energy_savings_kwh

\* a January sample before a July one, and the other way round
C27_Witness ==
    /\ Returned("all_metrics")
    /\ Months(indoor) = <<1, 7>>
    /\ Permuted(indoor, <<2, 1>>) # indoor
    /\ Permuted(indoor, <<2, 1>>) \in {Permuted(indoor, p) : p \in Orders(2)}
    /\ ret.value.total_energy_kwh = 909 + 242

----------------------------------------------------------------------------
(* The cost components of calculate_all_metrics *)

\* the gas energy the cost was computed from: (cost_usd - electric cost) / 0.0226
GasEnergyOfCost(v) ==
    (v.cost_usd - Len(v.energy_df.rows) * 208 * 1500) \div 226

\* C28: the two energy components behind the cost add up to the reported
\* total, count * 2.08 + sum of (0.34 + surcharge(month)) = total_energy_kwh,
\* and so for every non-empty series cost_usd < total_energy_kwh * 0.15.
C28_ComponentsAddUp ==
    Returned("all_metrics") =>
        LET v == ret.value
            n == Len(v.energy_df.rows)
        IN  /\ (v.cost_usd - n * 208 * 1500) % 226 = 0
            /\ GasEnergyOfCost(v) = StatedGasEnergy(indoor.rows)
            /\ n * 208 + GasEnergyOfCost(v) = v.total_energy_kwh
            /\ (n > 0 => v.cost_usd < v.total_energy_kwh * 1500)

\* a June and an August sample: 2 * 2.08 + 2 * 0.34 = 4.84 kWh, costing
\* 0.639368 USD, below 4.84 * 0.15 = 0.726
C28_Witness ==
    /\ Returned("all_metrics")
    /\ Months(indoor) = <<6, 8>>
    /\ ret.value.total_energy_kwh = 484
    /\ GasEnergyOfCost(ret.value) = 68
    /\ ret.value.cost_usd = 639368
    /\ ret.value.cost_usd < 484 * 1500

----------------------------------------------------------------------------
(* The substitution and the bill of the dashboard *)

\* the 'no data' figure of the callback
NoDataFigure(fig) ==
    \/ fig = create_error_figure("No data available")
    \/ fig = plot_bar_gauge(<<0, 0>>, <<"#888888", "#888888">>)

\* C29: in update_energy_consumption and update_total_cost, after the
\* substitution the outdoor series is non-empty whenever the indoor series is,
\* so the 'no data' result is produced if and only if the indoor series is
\* empty and the baseline model is run on every non-empty indoor series.
C29_NoDataIffIndoorEmpty ==
    op \in {"update_energy_consumption", "update_total_cost"} =>
        /\ ~df_empty(locals.indoor_df) => ~df_empty(locals.outdoor_df)
        /\ NoDataFigure(ret.value) <=> df_empty(locals.indoor_df)
        /\ ~df_empty(locals.indoor_df) =>
               IF op = "update_energy_consumption"
               THEN /\ ret.value.kind = "timeseries"
                    /\ TimesOf(ret.value.df) = TimesOf(locals.indoor_df)
               ELSE /\ ret.value.kind = "bar_gauge"
                    /\ ret.value.values[1] = StatedCost(locals.indoor_df.rows)

\* one indoor sample and no outdoor feed: the synthetic series has the one
\* sample at that hour and the baseline is plotted
C29_Witness ==
    /\ op = "update_energy_consumption"
    /\ Len(locals.indoor_df.rows) = 1
    /\ df_empty(QueriedOutdoor)
    /\ TimesOf(locals.outdoor_df) = TimesOf(locals.indoor_df)
    /\ ret.value.kind = "timeseries"
    /\ Len(ret.value.df.rows) = 1

\* get_grid_power: the hourly means of total_home_demand, in W
get_grid_power(db) == InfluxDBHelper_query(db, "grid", db.grid_power)

\* a bill frame only when some usage was measured
get_predicted_energy_bill_no_usage_no_frame(db) ==
    LET actual == get_actual_energy_consumption(db)
    IN  [df |-> IF actual.value = 0 THEN EmptyFrame
                ELSE [columns |-> {"value", "unit"},
                      rows |-> <<[value |-> actual.value * 1500, unit |-> "USD"]>>],
         printed |-> actual.printed]

\* get_predicted_energy_bill: pd.DataFrame({'value': [actual_kwh * 0.15],
\* 'unit': ['USD']}), value in 1e-6 USD
get_predicted_energy_bill(db) ==
    LET actual == get_actual_energy_consumption(db)
    IN  [df |-> [columns |-> {"value", "unit"},
                 rows |-> <<[value |-> actual.value * 1500, unit |-> "USD"]>>],
         printed |-> actual.printed]

RECURSIVE SumValue(_)
\* Series.sum() of a '_value' column
SumValue(rows) ==
    IF rows = <<>> THEN 0 ELSE rows[1].value + SumValue(Tail(rows))

plot_gauge(value, title) ==
    [kind |-> "gauge", value |-> value, title |-> title, min_val |-> 0, max_val |-> 300]

\* update_energy_bill: the first row of the bill frame, else the estimate
\* from grid power (sum / 1000 * 0.15, W to 1e-6 USD is * 150), else 0.
\* Nothing in the try block raises on the frames the queries yield.
update_energy_bill(db) ==
    LET bill == get_predicted_energy_bill(db)
        power == get_grid_power(db)
        direct == ~df_empty(bill.df) /\ "value" \in bill.df.columns
        bill_value == IF direct THEN bill.df.rows[1].value
                      ELSE IF ~df_empty(power.df) THEN SumValue(power.df.rows) * 150
                      ELSE 0
    IN  [printed |-> IF direct THEN bill.printed ELSE bill.printed \o power.printed,
         locals  |-> IF direct
                     THEN [callback |-> "update_energy_bill", bill_df |-> bill.df,
                           bill_value |-> bill_value]
                     ELSE [callback |-> "update_energy_bill", bill_df |-> bill.df,
                           power_df |-> power.df, bill_value |-> bill_value],
         figure  |-> plot_gauge(bill_value, "Predicted Energy Bill")]

MaxGridLen == 2

\* what the grid-power query can yield: no table, or hourly means in W
GridPowerInputs ==
    {EmptyFrame} \cup
    {Frame(rows) : rows \in UNION {[1..k -> [time : {0}, value : {500, 2000}]] :
                                       k \in 1..MaxGridLen}}

BillDatabases ==
    {[failing |-> failing, total_home_demand_kwh |-> kwh, grid_power |-> power] :
        failing \in SUBSET {"actual", "grid"}, kwh \in ActualKwh,
        power \in GridPowerInputs}

CallUpdateEnergyBill ==
    /\ \E db \in BillDatabases :
        /\ args' = db
        /\ Callback("update_energy_bill", update_energy_bill(db))
    /\ UNCHANGED <<threads, indoor, outdoor, energy_calc, mpc_calc>>

InitBill ==
    /\ indoor = EmptyFrame /\ outdoor = EmptyFrame
    /\ mpc_calc = MPCCalculator_init
    /\ Constructed

NextBill == CallUpdateEnergyBill

SpecBill == InitBill /\ [][NextBill]_vars

\* the usage query raised inside InfluxDBHelper.query
UsageQueryFailed == "actual" \in args.failing

\* what total_home_demand sums to when the query yields it, else 0
ActualOf(db) == IF "actual" \in db.failing THEN 0 ELSE db.total_home_demand_kwh

\* C30: query never raises (a failure yields an empty frame),
\* get_actual_energy_consumption then returns 0, get_predicted_energy_bill
\* always returns a one-row frame whose 'value' is actual_kwh * 0.15; so
\* update_energy_bill never takes the grid-power branch and shows a failed
\* query as a bill of 0, not as an error.
C30_BillNeverFallsBack ==
    op = "update_energy_bill" =>
        /\ ret.raised = "none"
        /\ Len(locals.bill_df.rows) = 1
        /\ "value" \in locals.bill_df.columns
        /\ locals.bill_df.rows[1].value = ActualOf(args) * 1500
        /\ "power_df" \notin DOMAIN locals
        /\ ret.value = plot_gauge(ActualOf(args) * 1500, "Predicted Energy Bill")
        /\ UsageQueryFailed =>
               /\ ret.value.kind = "gauge" /\ ret.value.value = 0
               /\ stdout = <<"Query error">>

\* the usage query fails while the meter holds usage and grid power is there
\* to fall back on: the gauge shows 0
C30_Witness ==
    /\ op = "update_energy_bill"
    /\ UsageQueryFailed
    /\ args.total_home_demand_kwh = 2500
    /\ "grid" \notin args.failing
    /\ ~df_empty(args.grid_power)
    /\ ret.value = plot_gauge(0, "Predicted Energy Bill")

====
